---------------------------- MODULE Spec2Model ----------------------------
(***************************************************************************)
(* A model of the RAG pipeline of app/services/rag_service.py.             *)
(*                                                                         *)
(* Text is a sequence of one-character strings, so that the substring      *)
(* tests, the regular expressions and the slicing of the source are        *)
(* computed character by character.  Scores and confidences are integers   *)
(* in hundredths (0.65 is 65).                                             *)
(***************************************************************************)
EXTENDS Integers, Sequences, FiniteSets, TLC

(***************************************************************************)
(* Python's str and re primitives used by the source.                      *)
(***************************************************************************)

\* the characters \s matches
Whitespace == {" ", "\n", "\t"}

\* the characters \d matches
Digits == <<"0","1","2","3","4","5","6","7","8","9">>

UpperLetters == <<"A","B","C","D","E","F","G","H","I","J","K","L","M",
                  "N","O","P","Q","R","S","T","U","V","W","X","Y","Z">>

LowerLetters == <<"a","b","c","d","e","f","g","h","i","j","k","l","m",
                  "n","o","p","q","r","s","t","u","v","w","x","y","z">>

IsSpace(c) == c \in Whitespace

IsDigit(c) == \E k \in 1..Len(Digits) : Digits[k] = c

\* the characters \w matches
IsWordChar(c) ==
    \/ IsDigit(c)
    \/ c = "_"
    \/ \E k \in 1..Len(LowerLetters) : LowerLetters[k] = c \/ UpperLetters[k] = c

LowerChar(c) ==
    IF \E k \in 1..Len(UpperLetters) : UpperLetters[k] = c
    THEN LowerLetters[CHOOSE k \in 1..Len(UpperLetters) : UpperLetters[k] = c]
    ELSE c

\* str.lower()
lower(s) == [i \in 1..Len(s) |-> LowerChar(s[i])]

RECURSIVE LStrip(_)
LStrip(s) == IF Len(s) > 0 /\ IsSpace(s[1]) THEN LStrip(Tail(s)) ELSE s

RECURSIVE RStrip(_)
RStrip(s) ==
    IF Len(s) > 0 /\ IsSpace(s[Len(s)]) THEN RStrip(SubSeq(s, 1, Len(s) - 1)) ELSE s

\* str.strip()
strip(s) == RStrip(LStrip(s))

\* the Python test `k in s` on two strings
IsSubstring(k, s) ==
    \E i \in 0..(Len(s) - Len(k)) : SubSeq(s, i + 1, i + Len(k)) = k

\* s[:n]
Prefix(s, n) == SubSeq(s, 1, IF Len(s) < n THEN Len(s) ELSE n)

StartsWith(s, p) == Len(s) >= Len(p) /\ SubSeq(s, 1, Len(p)) = p

\* the first index from i on that holds no whitespace (Len(s) + 1 if none)
RECURSIVE SpaceRunEnd(_, _)
SpaceRunEnd(s, i) ==
    IF i <= Len(s) /\ IsSpace(s[i]) THEN SpaceRunEnd(s, i + 1) ELSE i

\* the first index from i on that holds no digit (Len(s) + 1 if none)
RECURSIVE DigitRunEnd(_, _)
DigitRunEnd(s, i) ==
    IF i <= Len(s) /\ IsDigit(s[i]) THEN DigitRunEnd(s, i + 1) ELSE i

\* the first index from i on that holds no \w character (Len(s) + 1 if none)
RECURSIVE WordRunEnd(_, _)
WordRunEnd(s, i) ==
    IF i <= Len(s) /\ IsWordChar(s[i]) THEN WordRunEnd(s, i + 1) ELSE i

DigitVal(c) == (CHOOSE k \in 1..Len(Digits) : Digits[k] = c) - 1

\* int() of a string of digits
RECURSIVE ParseInt(_)
ParseInt(ds) ==
    IF Len(ds) = 0 THEN 0
    ELSE 10 * ParseInt(SubSeq(ds, 1, Len(ds) - 1)) + DigitVal(ds[Len(ds)])

\* the indices of s, in order
Indices(s) == [i \in 1..Len(s) |-> i]

\* s.split('.')[0]: the text before the first '.', all of s if there is none
BeforeFirstDot(s) ==
    LET dots == SelectSeq(Indices(s), LAMBDA i : s[i] = ".")
    IN  IF Len(dots) = 0 THEN s ELSE SubSeq(s, 1, dots[1] - 1)

\* sep.join(parts)
RECURSIVE Join(_, _)
Join(sep, parts) ==
    IF Len(parts) = 0 THEN <<>>
    ELSE IF Len(parts) = 1 THEN parts[1]
    ELSE parts[1] \o sep \o Join(sep, Tail(parts))

(***************************************************************************)
(* The patterns of detect_intent.  Each is ^(a1|a2|...) followed by a      *)
(* tail: "end" is \s*[punct]?$, "space" is one \s, "prefix" is nothing.    *)
(* An optional last letter (thanks?) is written as two alternatives.       *)
(***************************************************************************)

\* \s*[punct]?$ on the text t left after the alternative; the query was
\* stripped, so $ is the end of the text
MatchesEndTail(t, punct) ==
    LET r == SubSeq(t, SpaceRunEnd(t, 1), Len(t))
    IN  Len(r) = 0 \/ (Len(r) = 1 /\ r[1] \in punct)

\* re.match(pattern, s): the alternatives are tried with backtracking, so
\* the pattern matches when some alternative is followed by the tail
RegexMatch(p, s) ==
    \E k \in 1..Len(p.alts) :
        LET a == p.alts[k]
        IN  /\ StartsWith(s, a)
            /\ CASE p.tail = "end" -> MatchesEndTail(SubSeq(s, Len(a) + 1, Len(s)), p.punct)
                 [] p.tail = "space" -> Len(s) > Len(a) /\ IsSpace(s[Len(a) + 1])
                 [] p.tail = "prefix" -> TRUE

casual_patterns == <<
    [alts |-> <<<<"o","k">>, <<"o","k","a","y">>, <<"a","l","r","i","g","h","t">>, <<"g","o","t"," ","i","t">>, <<"u","n","d","e","r","s","t","o","o","d">>>>,
     tail |-> "end", punct |-> {"!", ",", "."}],
    [alts |-> <<<<"t","h","a","n","k","s">>, <<"t","h","a","n","k">>, <<"t","h","a","n","k"," ","y","o","u">>>>,
     tail |-> "end", punct |-> {"!", "."}],
    [alts |-> <<<<"y","e","a","h">>, <<"y","e","p">>, <<"s","u","r","e">>, <<"c","o","o","l">>>>,
     tail |-> "end", punct |-> {"!", "."}],
    [alts |-> <<<<"b","y","e">>, <<"g","o","o","d","b","y","e">>, <<"s","e","e"," ","y","o","u">>, <<"t","a","k","e"," ","c","a","r","e">>>>,
     tail |-> "end", punct |-> {"!", "."}] >>

greeting_patterns == <<
    [alts |-> <<<<"h","i">>, <<"h","e","l","l","o">>, <<"h","e","y">>, <<"g","r","e","e","t","i","n","g","s">>, <<"g","r","e","e","t","i","n","g">>>>,
     tail |-> "end", punct |-> {"!", "?"}],
    [alts |-> <<<<"h","o","w"," ","a","r","e"," ","y","o","u">>, <<"w","h","a","t","'","s"," ","u","p">>, <<"h","o","w","'","s"," ","i","t"," ","g","o","i","n","g">>>>,
     tail |-> "prefix", punct |-> {}] >>

followup_patterns == <<
    [alts |-> <<<<"m","o","r","e">>, <<"t","e","l","l"," ","m","e"," ","m","o","r","e">>, <<"a","n","y","t","h","i","n","g"," ","e","l","s","e">>, <<"w","h","a","t"," ","e","l","s","e">>>>,
     tail |-> "prefix", punct |-> {}],
    [alts |-> <<<<"i","s"," ","i","t"," ","s","a","f","e">>, <<"w","i","l","l"," ","i","t">>, <<"c","a","n"," ","i">>, <<"s","h","o","u","l","d"," ","i">>>>,
     tail |-> "space", punct |-> {}],
    [alts |-> <<<<"w","h","a","t"," ","a","b","o","u","t">>, <<"a","n","d">>>>,
     tail |-> "prefix", punct |-> {}],
    [alts |-> <<<<"o","k">>, <<"o","k","a","y">>, <<"u","n","d","e","r","s","t","o","o","d">>>>,
     tail |-> "prefix", punct |-> {}],
    [alts |-> <<<<"y","e","s">>, <<"n","o">>, <<"m","a","y","b","e">>>>,
     tail |-> "prefix", punct |-> {}] >>

clarification_patterns == <<
    [alts |-> <<<<"c","a","n"," ","y","o","u"," ","e","x","p","l","a","i","n">>, <<"w","h","a","t"," ","d","o","e","s">>, <<"w","h","a","t","'","s">>, <<"e","x","p","l","a","i","n">>>>,
     tail |-> "prefix", punct |-> {}],
    [alts |-> <<<<"i"," ","d","o","n","'","t"," ","u","n","d","e","r","s","t","a","n","d">>>>,
     tail |-> "prefix", punct |-> {}],
    [alts |-> <<<<"c","l","a","r","i","f","y">>, <<"e","l","a","b","o","r","a","t","e">>>>,
     tail |-> "prefix", punct |-> {}] >>

MatchesAny(patterns, s) == \E k \in 1..Len(patterns) : RegexMatch(patterns[k], s)

\* a mutant of detect_intent that tries the follow-up patterns first
detect_intent_followup_first(query) ==
    LET query_lower == strip(lower(query))
    IN  IF MatchesAny(followup_patterns, query_lower) THEN "follow_up"
        ELSE IF MatchesAny(casual_patterns, query_lower) THEN "casual"
        ELSE IF MatchesAny(greeting_patterns, query_lower) THEN "greeting"
        ELSE IF MatchesAny(clarification_patterns, query_lower) THEN "clarification"
        ELSE "medical_question"

detect_intent(query) ==
    LET query_lower == strip(lower(query))
    IN  IF MatchesAny(casual_patterns, query_lower) THEN "casual"
        ELSE IF MatchesAny(greeting_patterns, query_lower) THEN "greeting"
        ELSE IF MatchesAny(followup_patterns, query_lower) THEN "follow_up"
        ELSE IF MatchesAny(clarification_patterns, query_lower) THEN "clarification"
        ELSE "medical_question"

(***************************************************************************)
(* Conversation history: a sequence of turns [question, answer].           *)
(***************************************************************************)

\* seq[-n:] for n >= 0; seq[-0:] is the whole of seq
LastN(seq, n) ==
    IF n = 0 THEN seq
    ELSE SubSeq(seq, IF Len(seq) > n THEN Len(seq) - n + 1 ELSE 1, Len(seq))

\* set(re.findall(r'\b\w{4,}\b', s)): the maximal runs of \w characters that
\* are at least 4 long
WordRuns(s) ==
    LET starts == {i \in 1..Len(s) :
                      /\ IsWordChar(s[i])
                      /\ (i = 1 \/ ~IsWordChar(s[i - 1]))
                      /\ WordRunEnd(s, i) - i >= 4}
    IN  {SubSeq(s, i, WordRunEnd(s, i) - 1) : i \in starts}

KeyTerms(s) == WordRuns(lower(s))

\* a mutant of OverlapAboveThreshold that accepts an overlap of exactly 0.3
OverlapAtLeastThreshold(current_terms, prior_terms) ==
    LET n == Cardinality(current_terms)
    IN  10 * Cardinality(current_terms \cap prior_terms) >= 3 * (IF n > 1 THEN n ELSE 1)

\* overlap > 0.3 with overlap = len(current & prior) / max(len(current), 1),
\* compared exactly: 10 * |current & prior| > 3 * max(|current|, 1)
OverlapAboveThreshold(current_terms, prior_terms) ==
    LET n == Cardinality(current_terms)
    IN  10 * Cardinality(current_terms \cap prior_terms) > 3 * (IF n > 1 THEN n ELSE 1)

_find_topical_overlaps(history, current_query) ==
    IF Len(history) = 0 THEN <<>>
    ELSE LET current_terms == KeyTerms(current_query)
         IN  SelectSeq(LastN(history, 5),
                       LAMBDA exchange :
                           OverlapAboveThreshold(current_terms, KeyTerms(exchange.question)))

\* a mutant of _build_context_from_history whose follow-up context comes from
\* the oldest turn, history[0]
_build_context_from_history_oldest(history, current_query, intent) ==
    IF Len(history) = 0 THEN <<>>
    ELSE IF intent = "follow_up"
    THEN LET recent == history[1]
             first_sentence == strip(BeforeFirstDot(recent.answer))
         IN  <<"C","o","n","t","e","x","t"," ","f","r","o","m"," ","e","a","r","l","i","e","r",":"," ">> \o first_sentence
    ELSE IF intent = "clarification"
    THEN LET recent == history[Len(history)]
             topic == Prefix(recent.question, 50)
         IN  <<
             "A","b","o","u","t"," ","w","h","a","t"," ","w","e"," ","d","i","s","c","u","s",
             "s","e","d",":"," ">> \o topic
    ELSE IF intent = "medical_question"
    THEN LET relevant_exchanges == _find_topical_overlaps(history, current_query)
             used == Prefix(relevant_exchanges, 2)
             context_parts == [k \in 1..Len(used) |->
                                  <<"Y","o","u"," ","p","r","e","v","i","o","u","s","l","y"," ","a","s","k","e","d",":"," ","'">> \o used[k].question \o <<"'">>]
         IN  IF Len(context_parts) > 0
             THEN <<"C","o","n","t","e","x","t",":"," ">> \o Join(<<";"," ">>, context_parts)
             ELSE <<>>
    ELSE <<>>

_build_context_from_history(history, current_query, intent) ==
    IF Len(history) = 0 THEN <<>>
    ELSE IF intent = "follow_up"
    THEN LET recent == history[Len(history)]
             first_sentence == strip(BeforeFirstDot(recent.answer))
         IN  <<"C","o","n","t","e","x","t"," ","f","r","o","m"," ","e","a","r","l","i","e","r",":"," ">> \o first_sentence
    ELSE IF intent = "clarification"
    THEN LET recent == history[Len(history)]
             topic == Prefix(recent.question, 50)
         IN  <<
             "A","b","o","u","t"," ","w","h","a","t"," ","w","e"," ","d","i","s","c","u","s",
             "s","e","d",":"," ">> \o topic
    ELSE IF intent = "medical_question"
    THEN LET relevant_exchanges == _find_topical_overlaps(history, current_query)
             used == Prefix(relevant_exchanges, 2)
             context_parts == [k \in 1..Len(used) |->
                                  <<"Y","o","u"," ","p","r","e","v","i","o","u","s","l","y"," ","a","s","k","e","d",":"," ","'">> \o used[k].question \o <<"'">>]
         IN  IF Len(context_parts) > 0
             THEN <<"C","o","n","t","e","x","t",":"," ">> \o Join(<<";"," ">>, context_parts)
             ELSE <<>>
    ELSE <<>>

\* a mutant of RetrievalQuery that puts the query before the context
RetrievalQueryQueryFirst(history_context, query) ==
    IF Len(history_context) > 0
    THEN strip(query \o <<"\n">> \o history_context)
    ELSE query

\* line 119: the string sent to the vector store
RetrievalQuery(history_context, query) ==
    IF Len(history_context) > 0
    THEN strip(history_context \o <<"\n">> \o query)
    ELSE query

(***************************************************************************)
(* Results of calls that may raise: [raised, value].                       *)
(***************************************************************************)

Ok(v) == [raised |-> FALSE, value |-> v]

Raise == [raised |-> TRUE, value |-> <<>>]

(***************************************************************************)
(* The vector store.  outcome is what the store does on this call:         *)
(* "no_client" (get_weaviate_client returned None), "no_schema",           *)
(* "no_results", "exception" (the client raised inside the try) or "ok",   *)
(* and items is what it returned, as chunks [content, source_url, title,   *)
(* score].                                                                 *)
(***************************************************************************)

SearchOutcomes == {"no_client", "no_schema", "no_results", "exception", "ok"}

\* a mutant of search_weaviate whose except clause is missing
search_weaviate_uncaught(outcome, items) ==
    IF outcome = "ok" THEN Ok(items)
    ELSE IF outcome = "exception" THEN Raise
    ELSE Ok(<<>>)

search_weaviate(outcome, items) ==
    IF outcome = "no_client" THEN Ok(<<>>)
    ELSE IF outcome = "no_schema" THEN Ok(<<>>)
    ELSE IF outcome = "no_results" THEN Ok(<<>>)
    ELSE IF outcome = "exception" THEN Ok(<<>>)
    ELSE Ok(items)

\* a mutant of FilterChunks with the floor at 0.50
FilterChunksLowFloor(chunks) == SelectSeq(chunks, LAMBDA c : c.score >= 50)

\* line 121: [c for c in chunks if c["score"] >= 0.65]
FilterChunks(chunks) == SelectSeq(chunks, LAMBDA c : c.score >= 65)

(***************************************************************************)
(* The medication gate.                                                    *)
(***************************************************************************)

medication_keywords == <<
    <<"m","e","d","i","c","i","n","e">>, <<"d","r","u","g">>, <<"m","e","d","i","c","a","t","i","o","n">>, <<"p","i","l","l">>, <<"t","a","b","l","e","t">>, <<"d","o","s","e">>, <<"d","o","s","a","g","e">>,
    <<"i","b","u","p","r","o","f","e","n">>, <<"a","s","p","i","r","i","n">>, <<"p","a","r","a","c","e","t","a","m","o","l">>, <<"a","c","e","t","a","m","i","n","o","p","h","e","n">>, <<"a","n","t","i","b","i","o","t","i","c">>,
    <<"p","r","e","s","c","r","i","p","t","i","o","n">>, <<"o","v","e","r","-","t","h","e","-","c","o","u","n","t","e","r">>, <<"s","u","p","p","l","e","m","e","n","t">>, <<"v","i","t","a","m","i","n">>, <<"t","a","k","e">>,
    <<"s","a","f","e"," ","t","o"," ","t","a","k","e">>, <<"c","a","n"," ","i"," ","t","a","k","e">>, <<"s","h","o","u","l","d"," ","i"," ","t","a","k","e">> >>

_is_medication_query(query) ==
    LET query_lower == lower(query)
    IN  \E k \in 1..Len(medication_keywords) : IsSubstring(medication_keywords[k], query_lower)

NhsUrl == <<
    "h","t","t","p","s",":","/","/","w","w","w",".","n","h","s",".","u","k","/","p",
    "r","e","g","n","a","n","c","y","/","m","e","d","i","c","a","t","i","o","n","s",
    "/">>

NhsTitle == <<
    "N","H","S"," ","-"," ","M","e","d","i","c","i","n","e","s"," ","i","n"," ","P",
    "r","e","g","n","a","n","c","y">>

ParacetamolChunk ==
    [content |-> <<
        "P","a","r","a","c","e","t","a","m","o","l"," ","(","a","c","e","t","a","m","i",
        "n","o","p","h","e","n",")"," ","i","s"," ","g","e","n","e","r","a","l","l","y",
        " ","c","o","n","s","i","d","e","r","e","d"," ","s","a","f","e"," ","d","u","r",
        "i","n","g"," ","p","r","e","g","n","a","n","c","y"," ","w","h","e","n"," ","u",
        "s","e","d"," ","a","t"," ","t","h","e"," ","r","e","c","o","m","m","e","n","d",
        "e","d"," ","d","o","s","e","."," ","I","t","'","s"," ","o","f","t","e","n"," ",
        "t","h","e"," ","f","i","r","s","t"," ","c","h","o","i","c","e"," ","f","o","r",
        " ","p","a","i","n"," ","o","r"," ","f","e","v","e","r"," ","b","e","c","a","u",
        "s","e"," ","i","t"," ","h","a","s"," ","a"," ","g","o","o","d"," ","s","a","f",
        "e","t","y"," ","r","e","c","o","r","d"," ","a","c","r","o","s","s"," ","a","l",
        "l"," ","t","r","i","m","e","s","t","e","r","s","."," ","H","o","w","e","v","e",
        "r",","," ","i","t","'","s"," ","b","e","s","t"," ","t","o"," ","a","v","o","i",
        "d"," ","t","a","k","i","n","g"," ","m","o","r","e"," ","t","h","a","n"," ","n",
        "e","e","d","e","d"," ","a","n","d"," ","t","o"," ","t","a","l","k"," ","w","i",
        "t","h"," ","a"," ","h","e","a","l","t","h","c","a","r","e"," ","p","r","o","v",
        "i","d","e","r"," ","i","f"," ","s","y","m","p","t","o","m","s"," ","p","e","r",
        "s","i","s","t",".">>,
     source_url |-> NhsUrl, title |-> NhsTitle, score |-> 90]

IbuprofenChunk ==
    [content |-> <<
        "I","b","u","p","r","o","f","e","n"," ","(","a"," ","n","o","n","-","s","t","e",
        "r","o","i","d","a","l"," ","a","n","t","i","-","i","n","f","l","a","m","m","a",
        "t","o","r","y",")"," ","i","s"," ","g","e","n","e","r","a","l","l","y"," ","n",
        "o","t"," ","r","e","c","o","m","m","e","n","d","e","d"," ","d","u","r","i","n",
        "g"," ","p","r","e","g","n","a","n","c","y",","," ","p","a","r","t","i","c","u",
        "l","a","r","l","y"," ","i","n"," ","t","h","e"," ","t","h","i","r","d"," ","t",
        "r","i","m","e","s","t","e","r",","," ","a","s"," ","i","t"," ","m","a","y"," ",
        "a","f","f","e","c","t"," ","f","e","t","a","l"," ","d","e","v","e","l","o","p",
        "m","e","n","t"," ","a","n","d"," ","l","a","b","o","r","."," ","P","a","r","a",
        "c","e","t","a","m","o","l"," ","i","s"," ","a"," ","s","a","f","e","r"," ","a",
        "l","t","e","r","n","a","t","i","v","e"," ","f","o","r"," ","p","a","i","n"," ",
        "r","e","l","i","e","f"," ","d","u","r","i","n","g"," ","p","r","e","g","n","a",
        "n","c","y","."," ","A","l","w","a","y","s"," ","d","i","s","c","u","s","s"," ",
        "p","a","i","n"," ","m","a","n","a","g","e","m","e","n","t"," ","o","p","t","i",
        "o","n","s"," ","w","i","t","h"," ","y","o","u","r"," ","h","e","a","l","t","h",
        "c","a","r","e"," ","p","r","o","v","i","d","e","r",".">>,
     source_url |-> NhsUrl, title |-> NhsTitle, score |-> 88]

AspirinChunk ==
    [content |-> <<
        "A","s","p","i","r","i","n"," ","s","h","o","u","l","d"," ","g","e","n","e","r",
        "a","l","l","y"," ","b","e"," ","a","v","o","i","d","e","d"," ","d","u","r","i",
        "n","g"," ","p","r","e","g","n","a","n","c","y"," ","u","n","l","e","s","s"," ",
        "s","p","e","c","i","f","i","c","a","l","l","y"," ","r","e","c","o","m","m","e",
        "n","d","e","d"," ","b","y"," ","y","o","u","r"," ","h","e","a","l","t","h","c",
        "a","r","e"," ","p","r","o","v","i","d","e","r","."," ","I","t"," ","m","a","y",
        " ","i","n","c","r","e","a","s","e"," ","b","l","e","e","d","i","n","g"," ","r",
        "i","s","k"," ","a","n","d"," ","a","f","f","e","c","t"," ","f","e","t","a","l",
        " ","d","e","v","e","l","o","p","m","e","n","t",","," ","e","s","p","e","c","i",
        "a","l","l","y"," ","i","n"," ","t","h","e"," ","t","h","i","r","d"," ","t","r",
        "i","m","e","s","t","e","r","."," ","F","o","r"," ","p","a","i","n"," ","r","e",
        "l","i","e","f",","," ","p","a","r","a","c","e","t","a","m","o","l"," ","i","s",
        " ","a"," ","s","a","f","e","r"," ","o","p","t","i","o","n","."," ","A","l","w",
        "a","y","s"," ","c","o","n","s","u","l","t"," ","y","o","u","r"," ","h","e","a",
        "l","t","h","c","a","r","e"," ","p","r","o","v","i","d","e","r"," ","b","e","f",
        "o","r","e"," ","t","a","k","i","n","g"," ","a","n","y"," ","m","e","d","i","c",
        "a","t","i","o","n",".">>,
     source_url |-> NhsUrl, title |-> NhsTitle, score |-> 87]

\* a mutant of GenericMedicationChunk scored below the retrieval floor
GenericMedicationChunkLowScore ==
    [content |-> <<
        "F","o","r"," ","q","u","e","s","t","i","o","n","s"," ","a","b","o","u","t"," ",
        "s","p","e","c","i","f","i","c"," ","m","e","d","i","c","a","t","i","o","n","s",
        " ","d","u","r","i","n","g"," ","p","r","e","g","n","a","n","c","y",","," ","c",
        "o","n","s","u","l","t"," ","y","o","u","r"," ","p","r","o","v","i","d","e","r",
        ".">>,
     source_url |-> NhsUrl, title |-> NhsTitle, score |-> 60]

GenericMedicationChunk ==
    [content |-> <<
        "F","o","r"," ","q","u","e","s","t","i","o","n","s"," ","a","b","o","u","t"," ",
        "s","p","e","c","i","f","i","c"," ","m","e","d","i","c","a","t","i","o","n","s",
        " ","d","u","r","i","n","g"," ","p","r","e","g","n","a","n","c","y",","," ","i",
        "t","'","s"," ","e","s","s","e","n","t","i","a","l"," ","t","o"," ","c","o","n",
        "s","u","l","t"," ","y","o","u","r"," ","h","e","a","l","t","h","c","a","r","e",
        " ","p","r","o","v","i","d","e","r","."," ","T","h","e","y"," ","c","a","n"," ",
        "e","v","a","l","u","a","t","e"," ","y","o","u","r"," ","i","n","d","i","v","i",
        "d","u","a","l"," ","s","i","t","u","a","t","i","o","n"," ","a","n","d"," ","r",
        "e","c","o","m","m","e","n","d"," ","s","a","f","e"," ","a","l","t","e","r","n",
        "a","t","i","v","e","s"," ","i","f"," ","n","e","e","d","e","d",".">>,
     source_url |-> NhsUrl, title |-> NhsTitle, score |-> 70]

\* the dict of _get_medication_fallback_chunks, in its insertion order
medication_knowledge == <<
    [keyword |-> <<"p","a","r","a","c","e","t","a","m","o","l">>, chunk |-> ParacetamolChunk],
    [keyword |-> <<"i","b","u","p","r","o","f","e","n">>, chunk |-> IbuprofenChunk],
    [keyword |-> <<"a","s","p","i","r","i","n">>, chunk |-> AspirinChunk] >>

\* the dict with its entries in another order: aspirin, ibuprofen, paracetamol
medication_knowledge_reordered == <<
    [keyword |-> <<"a","s","p","i","r","i","n">>, chunk |-> AspirinChunk],
    [keyword |-> <<"i","b","u","p","r","o","f","e","n">>, chunk |-> IbuprofenChunk],
    [keyword |-> <<"p","a","r","a","c","e","t","a","m","o","l">>, chunk |-> ParacetamolChunk] >>

\* the first entry of table whose keyword is in the query, else the generic chunk
FirstKeywordMatch(table, query_lower) ==
    IF \E k \in 1..Len(table) : IsSubstring(table[k].keyword, query_lower)
    THEN LET first == CHOOSE k \in 1..Len(table) :
                          /\ IsSubstring(table[k].keyword, query_lower)
                          /\ \A j \in 1..(k - 1) : ~IsSubstring(table[j].keyword, query_lower)
         IN  <<table[first].chunk>>
    ELSE <<GenericMedicationChunk>>

\* a mutant of _get_medication_fallback_chunks that walks the table in another order
_get_medication_fallback_chunks_reordered(query) ==
    FirstKeywordMatch(medication_knowledge_reordered, lower(query))

_get_medication_fallback_chunks(query) ==
    FirstKeywordMatch(medication_knowledge, lower(query))

(***************************************************************************)
(* The language model.  An outcome llm is [ok, content]: the completion    *)
(* call raised (ok = FALSE: an API error, a timeout, a malformed           *)
(* response), or it returned the text content.                             *)
(***************************************************************************)

SentenceEnd == {".", "!", "?"}

\* re.split(r'(?<=[.!?])\s+', s): s is cut at every run of whitespace that
\* follows a '.', '!' or '?'.  cuts holds the first index of each such run.
SplitSentences(s) ==
    LET cuts == SelectSeq(Indices(s),
                          LAMBDA i : i > 1 /\ IsSpace(s[i]) /\ s[i - 1] \in SentenceEnd)
    IN  [k \in 1..(Len(cuts) + 1) |->
            SubSeq(s,
                   IF k = 1 THEN 1 ELSE SpaceRunEnd(s, cuts[k - 1]),
                   IF k > Len(cuts) THEN Len(s) ELSE cuts[k] - 1)]

NonBlank(pieces) == SelectSeq(pieces, LAMBDA p : Len(strip(p)) > 0)

\* a mutant of CannedFallbackResponse with the two confidences exchanged
CannedFallbackResponseSwapped ==
    [answer |-> <<
        "I"," ","d","o","n","'","t"," ","h","a","v","e"," ","s","p","e","c","i","f","i",
        "c"," ","i","n","f","o","r","m","a","t","i","o","n"," ","a","b","o","u","t"," ",
        "t","h","a","t","."," ","P","l","e","a","s","e"," ","c","o","n","s","u","l","t",
        " ","y","o","u","r"," ","h","e","a","l","t","h","c","a","r","e"," ","p","r","o",
        "v","i","d","e","r"," ","f","o","r"," ","p","e","r","s","o","n","a","l","i","z",
        "e","d"," ","g","u","i","d","a","n","c","e",".">>,
     sentences |-> <<
         [text |-> <<
             "I"," ","d","o","n","'","t"," ","h","a","v","e"," ","s","p","e","c","i","f","i",
             "c"," ","i","n","f","o","r","m","a","t","i","o","n"," ","a","b","o","u","t"," ",
             "t","h","a","t",".">>,
          confidence |-> 90, sources |-> <<>>],
         [text |-> <<
             "P","l","e","a","s","e"," ","c","o","n","s","u","l","t"," ","y","o","u","r"," ",
             "h","e","a","l","t","h","c","a","r","e"," ","p","r","o","v","i","d","e","r"," ",
             "f","o","r"," ","p","e","r","s","o","n","a","l","i","z","e","d"," ","g","u","i",
             "d","a","n","c","e",".">>,
          confidence |-> 30, sources |-> <<>>] >>,
     is_fallback |-> TRUE,
     fallback_type |-> "error"]

CannedFallbackResponse ==
    [answer |-> <<
        "I"," ","d","o","n","'","t"," ","h","a","v","e"," ","s","p","e","c","i","f","i",
        "c"," ","i","n","f","o","r","m","a","t","i","o","n"," ","a","b","o","u","t"," ",
        "t","h","a","t","."," ","P","l","e","a","s","e"," ","c","o","n","s","u","l","t",
        " ","y","o","u","r"," ","h","e","a","l","t","h","c","a","r","e"," ","p","r","o",
        "v","i","d","e","r"," ","f","o","r"," ","p","e","r","s","o","n","a","l","i","z",
        "e","d"," ","g","u","i","d","a","n","c","e",".">>,
     sentences |-> <<
         [text |-> <<
             "I"," ","d","o","n","'","t"," ","h","a","v","e"," ","s","p","e","c","i","f","i",
             "c"," ","i","n","f","o","r","m","a","t","i","o","n"," ","a","b","o","u","t"," ",
             "t","h","a","t",".">>,
          confidence |-> 30, sources |-> <<>>],
         [text |-> <<
             "P","l","e","a","s","e"," ","c","o","n","s","u","l","t"," ","y","o","u","r"," ",
             "h","e","a","l","t","h","c","a","r","e"," ","p","r","o","v","i","d","e","r"," ",
             "f","o","r"," ","p","e","r","s","o","n","a","l","i","z","e","d"," ","g","u","i",
             "d","a","n","c","e",".">>,
          confidence |-> 90, sources |-> <<>>] >>,
     is_fallback |-> TRUE,
     fallback_type |-> "error"]

FallbackResponse(answer, confidence) ==
    LET sentences == NonBlank(SplitSentences(answer))
    IN  [answer |-> answer,
         sentences |-> [k \in 1..Len(sentences) |->
                           [text |-> strip(sentences[k]),
                            confidence |-> confidence,
                            sources |-> <<>>]],
         is_fallback |-> TRUE,
         fallback_type |-> "groq_generated"]

\* a mutant of generate_fallback_with_groq that scores its sentences 0.5,
\* the parser's default
generate_fallback_with_groq_default_score(query, llm) ==
    IF llm.ok THEN Ok(FallbackResponse(strip(llm.content), 50))
    ELSE Ok(CannedFallbackResponse)

generate_fallback_with_groq(query, llm) ==
    IF llm.ok THEN Ok(FallbackResponse(strip(llm.content), 45))
    ELSE Ok(CannedFallbackResponse)

\* a mutant of DegradedAnswer that quotes the last chunk
DegradedAnswerLastChunk(chunks) ==
    IF Len(chunks) = 0 THEN Raise
    ELSE Ok(<<
        "B","a","s","e","d"," ","o","n"," ","a","v","a","i","l","a","b","l","e"," ","i",
        "n","f","o","r","m","a","t","i","o","n",":"," ">> \o Prefix(chunks[Len(chunks)].content, 200)
            \o <<
                ".",".","."," ","P","l","e","a","s","e"," ","c","o","n","s","u","l","t"," ","y",
                "o","u","r"," ","h","e","a","l","t","h","c","a","r","e"," ","p","r","o","v","i",
                "d","e","r"," ","f","o","r"," ","p","e","r","s","o","n","a","l","i","z","e","d",
                " ","a","d","v","i","c","e",".">>)

\* the except branch of generate_answer_with_groq; chunks[0] raises on an
\* empty chunk list
DegradedAnswer(chunks) ==
    IF Len(chunks) = 0 THEN Raise
    ELSE Ok(<<
        "B","a","s","e","d"," ","o","n"," ","a","v","a","i","l","a","b","l","e"," ","i",
        "n","f","o","r","m","a","t","i","o","n",":"," ">> \o Prefix(chunks[1].content, 200)
            \o <<
                ".",".","."," ","P","l","e","a","s","e"," ","c","o","n","s","u","l","t"," ","y",
                "o","u","r"," ","h","e","a","l","t","h","c","a","r","e"," ","p","r","o","v","i",
                "d","e","r"," ","f","o","r"," ","p","e","r","s","o","n","a","l","i","z","e","d",
                " ","a","d","v","i","c","e",".">>)

generate_answer_with_groq(query, chunks, history_context, intent, llm) ==
    IF llm.ok THEN Ok(strip(llm.content))
    ELSE DegradedAnswer(chunks)

(***************************************************************************)
(* The confidence parser.                                                  *)
(***************************************************************************)

\* the index after a match of \[\d+\] that starts at i, 0 if there is none
CitationEnd(s, i) ==
    IF i <= Len(s) /\ s[i] = "["
    THEN LET d == DigitRunEnd(s, i + 1)
         IN  IF d > i + 1 /\ d <= Len(s) /\ s[d] = "]" THEN d + 1 ELSE 0
    ELSE 0

\* the indices at which a match of \[\d+\] starts; no two matches overlap
CitationStarts(s) == SelectSeq(Indices(s), LAMBDA i : CitationEnd(s, i) > 0)

\* re.findall(r'\[(\d+)\]', s), each match through int()
Citations(s) ==
    LET starts == CitationStarts(s)
    IN  [k \in 1..Len(starts) |->
            ParseInt(SubSeq(s, starts[k] + 1, CitationEnd(s, starts[k]) - 2))]

\* re.sub(r'\s*\[\d+\]\s*', ' ', s).  A match is a marker with the whitespace
\* run before it and the one after it, so a character goes when it is part of
\* a marker, or is whitespace of a run that ends at a marker or begins after
\* one; each match leaves one ' ', put here where its '[' stood.
RemoveCitations(s) ==
    LET starts == CitationStarts(s)
        InMarker(i) == \E k \in 1..Len(starts) :
                           starts[k] < i /\ i < CitationEnd(s, starts[k])
        AfterMarker(i) == \E k \in 1..Len(starts) :
                              /\ CitationEnd(s, starts[k]) <= i
                              /\ SpaceRunEnd(s, CitationEnd(s, starts[k])) > i
        marked == [i \in 1..Len(s) |->
                      IF CitationEnd(s, i) > 0 THEN " "
                      ELSE IF InMarker(i) THEN ""
                      ELSE IF IsSpace(s[i])
                              /\ (CitationEnd(s, SpaceRunEnd(s, i)) > 0 \/ AfterMarker(i))
                           THEN ""
                      ELSE s[i]]
    IN  SelectSeq(marked, LAMBDA c : c # "")

\* re.sub(r'\s+', ' ', s): the first character of every whitespace run
\* becomes ' ' and the rest of the run goes
CollapseSpaces(s) ==
    LET marked == [i \in 1..Len(s) |->
                      IF ~IsSpace(s[i]) THEN s[i]
                      ELSE IF i > 1 /\ IsSpace(s[i - 1]) THEN ""
                      ELSE " "]
    IN  SelectSeq(marked, LAMBDA c : c # "")

CleanText(sentence) == CollapseSpaces(strip(RemoveCitations(sentence)))

RECURSIVE SumScores(_)
SumScores(chunks) ==
    IF Len(chunks) = 0 THEN 0 ELSE chunks[1].score + SumScores(Tail(chunks))

\* round(total / n, 2) in hundredths.  When the mean lies exactly between two
\* hundredths the float quotient falls on either side of the tie; tie_up says
\* on which side.
Round2(total, n, tie_up) ==
    LET q == total \div n
        r == total % n
    IN  IF 2 * r > n THEN q + 1
        ELSE IF 2 * r < n THEN q
        ELSE IF tie_up THEN q + 1 ELSE q

\* a mutant of ScoreSentence without the test 0 <= idx: [0] gives idx = -1,
\* which Python resolves to the last chunk
ScoreSentenceNegativeIndex(sentence, chunks, tie_up) ==
    LET citations == Citations(sentence)
        clean_text == CleanText(sentence)
        valid == SelectSeq(citations, LAMBDA n : n - 1 < Len(chunks) /\ Len(chunks) > 0)
        cited_chunks == [k \in 1..Len(valid) |->
                            IF valid[k] = 0 THEN chunks[Len(chunks)] ELSE chunks[valid[k]]]
    IN  IF Len(citations) = 0
        THEN [text |-> clean_text, confidence |-> 50, sources |-> <<>>]
        ELSE IF Len(valid) > 0
        THEN [text |-> clean_text,
              confidence |-> Round2(SumScores(cited_chunks), Len(cited_chunks), tie_up),
              sources |-> [k \in 1..Len(valid) |->
                              [url |-> cited_chunks[k].source_url,
                               title |-> cited_chunks[k].title]]]
        ELSE [text |-> clean_text, confidence |-> 50, sources |-> <<>>]

\* a mutant of ScoreSentence that counts a chunk cited several times once
ScoreSentenceDistinct(sentence, chunks, tie_up) ==
    LET citations == Citations(sentence)
        clean_text == CleanText(sentence)
        first == SelectSeq(Indices(citations),
                           LAMBDA k : \A j \in 1..(k - 1) : citations[j] # citations[k])
        distinct == [k \in 1..Len(first) |-> citations[first[k]]]
        valid == SelectSeq(distinct, LAMBDA n : 0 <= n - 1 /\ n - 1 < Len(chunks))
        cited_chunks == [k \in 1..Len(valid) |-> chunks[valid[k]]]
    IN  IF Len(citations) = 0
        THEN [text |-> clean_text, confidence |-> 50, sources |-> <<>>]
        ELSE IF Len(valid) > 0
        THEN [text |-> clean_text,
              confidence |-> Round2(SumScores(cited_chunks), Len(cited_chunks), tie_up),
              sources |-> [k \in 1..Len(valid) |->
                              [url |-> cited_chunks[k].source_url,
                               title |-> cited_chunks[k].title]]]
        ELSE [text |-> clean_text, confidence |-> 50, sources |-> <<>>]

ScoreSentence(sentence, chunks, tie_up) ==
    LET citations == Citations(sentence)
        clean_text == CleanText(sentence)
        valid == SelectSeq(citations, LAMBDA n : 0 <= n - 1 /\ n - 1 < Len(chunks))
        cited_chunks == [k \in 1..Len(valid) |-> chunks[valid[k]]]
    IN  IF Len(citations) = 0
        THEN [text |-> clean_text, confidence |-> 50, sources |-> <<>>]
        ELSE IF Len(valid) > 0
        THEN [text |-> clean_text,
              confidence |-> Round2(SumScores(cited_chunks), Len(cited_chunks), tie_up),
              sources |-> [k \in 1..Len(valid) |->
                              [url |-> cited_chunks[k].source_url,
                               title |-> cited_chunks[k].title]]]
        ELSE [text |-> clean_text, confidence |-> 50, sources |-> <<>>]

\* a mutant of parse_answer_with_confidence that adds the cited scores up
\* instead of averaging them
ScoreSentenceSum(sentence, chunks, tie_up) ==
    LET scored == ScoreSentence(sentence, chunks, tie_up)
        citations == Citations(sentence)
        valid == SelectSeq(citations, LAMBDA n : 0 <= n - 1 /\ n - 1 < Len(chunks))
    IN  IF Len(valid) > 0
        THEN [scored EXCEPT !.confidence =
                  SumScores([k \in 1..Len(valid) |-> chunks[valid[k]]])]
        ELSE scored

parse_answer_with_confidence_sum(answer, chunks, tie_up) ==
    LET sentences == NonBlank(SplitSentences(answer))
    IN  [k \in 1..Len(sentences) |-> ScoreSentenceSum(sentences[k], chunks, tie_up)]

\* a mutant of parse_answer_with_confidence that keeps only the sentences
\* that cite a source
parse_answer_with_confidence_cited_only(answer, chunks, tie_up) ==
    LET sentences == SelectSeq(NonBlank(SplitSentences(answer)),
                               LAMBDA sentence : Len(Citations(sentence)) > 0)
    IN  [k \in 1..Len(sentences) |-> ScoreSentence(sentences[k], chunks, tie_up)]

parse_answer_with_confidence(answer, chunks, tie_up) ==
    LET sentences == NonBlank(SplitSentences(answer))
    IN  [k \in 1..Len(sentences) |-> ScoreSentence(sentences[k], chunks, tie_up)]

(***************************************************************************)
(* The canned replies of query_rag_system.                                 *)
(***************************************************************************)

\* the dict casual_responses, in its insertion order
casual_responses == <<
    [keyword |-> <<"t","h","a","n","k","s">>, response |-> <<"Y","o","u","'","r","e"," ","w","e","l","c","o","m","e","!">>],
    [keyword |-> <<"o","k">>, response |-> <<"G","o","t"," ","i","t","!">>],
    [keyword |-> <<"b","y","e">>, response |-> <<"T","a","k","e"," ","c","a","r","e","!">>],
    [keyword |-> <<"y","e","a","h">>, response |-> <<"U+1F44D">>],
    [keyword |-> <<"c","o","o","l">>, response |-> <<"G","r","e","a","t","!">>] >>

\* the dict greetings, in its insertion order
greetings == <<
    [keyword |-> <<"h","i">>, response |-> <<
        "H","i"," ","t","h","e","r","e","!"," ","W","h","a","t"," ","c","a","n"," ","I",
        " ","h","e","l","p"," ","y","o","u"," ","w","i","t","h","?">>],
    [keyword |-> <<"h","e","l","l","o">>, response |-> <<
        "H","e","y","!"," ","W","h","a","t","'","s"," ","o","n"," ","y","o","u","r"," ",
        "m","i","n","d","?">>],
    [keyword |-> <<"h","o","w"," ","a","r","e"," ","y","o","u">>,
     response |-> <<
         "I","'","m"," ","h","e","r","e"," ","a","n","d"," ","r","e","a","d","y"," ","t",
         "o"," ","h","e","l","p","."," ","W","h","a","t"," ","w","o","u","l","d"," ","y",
         "o","u"," ","l","i","k","e"," ","t","o"," ","k","n","o","w","?">>],
    [keyword |-> <<"t","h","a","n","k","s">>,
     response |-> <<
         "Y","o","u","'","r","e"," ","w","e","l","c","o","m","e","!"," ","F","e","e","l",
         " ","f","r","e","e"," ","t","o"," ","a","s","k"," ","i","f"," ","y","o","u"," ",
         "h","a","v","e"," ","m","o","r","e"," ","q","u","e","s","t","i","o","n","s",".">>],
    [keyword |-> <<"b","y","e">>, response |-> <<
        "T","a","k","e"," ","c","a","r","e","!"," ","C","o","m","e"," ","b","a","c","k",
        " ","a","n","y","t","i","m","e"," ","y","o","u"," ","h","a","v","e"," ","q","u",
        "e","s","t","i","o","n","s",".">>] >>

\* the reply of the first keyword of table that is in the query, else default
FirstReply(table, query_lower, default) ==
    IF \E k \in 1..Len(table) : IsSubstring(table[k].keyword, query_lower)
    THEN table[CHOOSE k \in 1..Len(table) :
                   /\ IsSubstring(table[k].keyword, query_lower)
                   /\ \A j \in 1..(k - 1) : ~IsSubstring(table[j].keyword, query_lower)].response
    ELSE default

\* a mutant of CannedResponse that gives each sentence of the reply its own entry
CannedResponseBySentence(text) ==
    LET pieces == NonBlank(SplitSentences(text))
    IN  [answer |-> text,
         sentences |-> [k \in 1..Len(pieces) |->
                           [text |-> pieces[k], confidence |-> 95, sources |-> <<>>]]]

CannedResponse(text) ==
    [answer |-> text,
     sentences |-> <<[text |-> text, confidence |-> 95, sources |-> <<>>]>>]

CasualResponse(query) == CannedResponse(FirstReply(casual_responses, lower(query), <<"G","o","t"," ","i","t","!">>))

GreetingResponse(query) ==
    CannedResponse(FirstReply(greetings, lower(query), <<"H","i","!"," ","H","o","w"," ","c","a","n"," ","I"," ","h","e","l","p","?">>))

(***************************************************************************)
(* add_to_history.  list.append changes the list the caller passed, and    *)
(* the slice is a new list: mutated is the caller's list after the call,   *)
(* returned is the value handed back.                                      *)
(***************************************************************************)

\* the default of add_to_history's max_turns
max_turns == 10

\* a mutant of add_to_history that keeps the oldest turns, history[:max_turns]
add_to_history_keep_oldest(history, question, answer, limit) ==
    LET appended == Append(history, [question |-> question, answer |-> answer])
    IN  [mutated |-> appended, returned |-> Prefix(appended, limit)]

add_to_history(history, question, answer, limit) ==
    LET appended == Append(history, [question |-> question, answer |-> answer])
    IN  [mutated |-> appended, returned |-> LastN(appended, limit)]

(***************************************************************************)
(* Bounds and inputs.                                                      *)
(***************************************************************************)

\* the longest conversation history passed to query_rag_system
MaxHistory == 2

\* the most chunks the vector store returns in one search
MaxChunks == 2

\* the number of exchanges fed through add_to_history
MaxExchanges == 15

\* all sequences over S of length 0..n
RECURSIVE SeqsUpTo(_, _)
SeqsUpTo(S, n) ==
    IF n = 0 THEN {<<>>}
    ELSE LET shorter == SeqsUpTo(S, n - 1)
         IN  shorter \cup {Append(s, x) : s \in shorter, x \in S}

Queries == {
    <<"h","i">>,
    <<"T","h","a","n","k","s","!">>,
    <<"o","k">>,
    <<"h","o","w"," ","a","r","e"," ","y","o","u">>,
    <<
        "h","o","w"," ","a","r","e"," ","y","o","u"," ","f","e","e","l","i","n","g"," ",
        "a","b","o","u","t"," ","i","b","u","p","r","o","f","e","n">>,
    <<"W","h","a","t"," ","a","b","o","u","t"," ","d","o","s","a","g","e","?">>,
    <<"w","h","a","t"," ","a","b","o","u","t"," ","s","l","e","e","p">>,
    <<"e","x","p","l","a","i","n"," ","n","a","u","s","e","a">>,
    <<"n","a","u","s","e","a"," ","t","i","p","s">>,
    <<"i","s"," ","i","b","u","p","r","o","f","e","n"," ","s","a","f","e">>,
    <<"i","b","u","p","r","o","f","e","n"," ","o","r"," ","p","a","r","a","c","e","t","a","m","o","l">>,
    <<"a","s","p","i","r","i","n"," ","o","r"," ","i","b","u","p","r","o","f","e","n">>,
    <<"v","i","t","a","m","i","n">> }

Turns == {
    [question |-> <<"I","s"," ","p","a","r","a","c","e","t","a","m","o","l"," ","s","a","f","e","?">>,
     answer |-> <<
         "P","a","r","a","c","e","t","a","m","o","l"," ","i","s"," ","s","a","f","e"," ",
         "[","1","]","."," ","A","s","k"," ","a"," ","d","o","c","t","o","r",".">>],
    [question |-> <<"n","a","u","s","e","a"," ","t","i","p","s"," ","p","l","e","a","s","e">>, answer |-> <<"E","a","t"," ","s","m","a","l","l"," ","m","e","a","l","s",".">>] }

Histories == SeqsUpTo(Turns, MaxHistory)

\* what the vector store holds: chunks above, on and below the 0.65 floor
StoreChunks == {
    [content |-> <<"R","e","s","t"," ","h","e","l","p","s",".">>, source_url |-> <<"u","/","a">>, title |-> <<"A">>, score |-> 92],
    [content |-> <<"E","a","t"," ","w","e","l","l",".">>, source_url |-> <<"u","/","b">>, title |-> <<"B">>, score |-> 65],
    [content |-> <<"O","l","d"," ","t","a","l","e",".">>, source_url |-> <<"u","/","c">>, title |-> <<"C">>, score |-> 50] }

SearchResults == SeqsUpTo(StoreChunks, MaxChunks) \ {<<>>}

\* the texts the language model returns
LLMTexts == {
    <<>>,
    <<" ">>,
    <<
        "R","e","s","t"," ","h","e","l","p","s"," ","[","1","]","."," ","S","e","e"," ",
        "a"," ","d","o","c","t","o","r",".">>,
    <<"Y","e","s"," ","[","1","]","[","2","]",".">>,
    <<"N","o"," ","[","9","]",".">>,
    <<"F","i","n","e","."," ","[","1","]">> }

LLMOutcomes == {[ok |-> FALSE, content |-> <<>>]} \cup {[ok |-> TRUE, content |-> t] : t \in LLMTexts}

\* chunk sets for the parser alone, with scores over all of [0, 1]
ParseChunks == {
    [content |-> <<"a">>, source_url |-> <<"u","/","a">>, title |-> <<"A">>, score |-> 100],
    [content |-> <<"b">>, source_url |-> <<"u","/","b">>, title |-> <<"B">>, score |-> 65],
    [content |-> <<"c">>, source_url |-> <<"u","/","c">>, title |-> <<"C">>, score |-> 50],
    [content |-> <<"d">>, source_url |-> <<"u","/","d">>, title |-> <<"D">>, score |-> 0] }

ParseAnswers == {
    <<>>,
    <<
        "R","e","s","t"," ","h","e","l","p","s"," ","[","1","]","."," ","S","e","e"," ",
        "a"," ","d","o","c","t","o","r",".">>,
    <<"Y","e","s"," ","[","1","]","[","2","]",".">>,
    <<"Y","e","s"," ","[","2","]"," ","a","n","d"," ","n","o"," ","[","2","]"," ","[","1","]","!">>,
    <<"N","o"," ","[","9","]",".">>,
    <<"N","o"," ","[","0","]","."," ","Y","e","s"," ","[","1","]","?">>,
    <<"F","i","n","e","."," ","[","1","]">>,
    <<"S","a","f","e","."," ","[","1","]"," ","N","e","x","t"," ","[","2","]",".">>,
    <<"Y","e","s","[","1","]","."," ","G","o"," ","o","n">>,
    <<
        " ","R","e","s","t"," "," ","n","o","w","!"," "," "," ","T","h","e","n"," ","e",
        "a","t","[","2","]","w","e","l","l","."," ">>,
    <<
        "M","i","x"," ","[","9","]"," ","a","n","d"," ","[","1","]","."," ","O","r"," ",
        "[","0","]"," ","a","n","d"," ","[","2","]",".">> }

HistoryQuestions == {<<"q">>, <<"r">>}

(***************************************************************************)
(* State.                                                                  *)
(***************************************************************************)

VARIABLES
    pc,                   \* where query_rag_system stands
    query,                \* its arguments
    conversation_history,
    intent,               \* its locals
    history_context,
    retrieval_query,
    search_outcome,       \* what the vector store did on this call
    retrieved,            \* what search_weaviate returned (line 120)
    filtered,             \* the chunks left by the 0.65 floor (line 121)
    chunks,               \* the chunk set passed on to generation and parsing
    route,                \* the branch taken at line 123
    llm,                  \* what the language model did on this call
    answer,
    response,             \* the value returned to the caller
    calls,                \* the collaborators called so far, in order
    generator_query,      \* the query argument given to the generator (lines 130, 133)
    history,              \* the caller's history variable (USAGE, lines 22-27)
    history_before,       \* the list passed to the last add_to_history, before it
    history_arg,          \* the list passed to the last add_to_history, after it
    exchange_log,         \* every exchange so far, oldest first
    chat_messages,        \* the ChatMessage rows saved by POST /chat/query
    session_id,           \* the session of the request being served
    forum_posts,          \* the forum_posts table; a post's id is its position
    sync_response,        \* what the last process_sync_batch returned
    sync_trace,           \* every sync operation processed so far, with its effect
    create_requests,      \* the create-post requests in flight or answered
    clock,                \* datetime.utcnow(), in days
    issued_tokens,        \* the JWTs the server has signed so far
    refresh_request,      \* the token given to the last POST /auth/refresh
    refresh_response      \* and what the endpoint answered

ragVars == <<pc, query, conversation_history, intent, history_context, retrieval_query,
             search_outcome, retrieved, filtered, chunks, route, llm, answer, response,
             calls, generator_query>>

historyVars == <<history, history_before, history_arg, exchange_log>>

chatVars == <<chat_messages, session_id>>

\* the state of the callers of query_rag_system
callerVars == <<history, history_before, history_arg, exchange_log, chat_messages,
                session_id>>

\* the state of the forum and auth services
serviceVars == <<forum_posts, sync_response, sync_trace, create_requests, clock,
                 issued_tokens, refresh_request, refresh_response>>

vars == <<pc, query, conversation_history, intent, history_context, retrieval_query,
          search_outcome, retrieved, filtered, chunks, route, llm, answer, response,
          calls, generator_query, history, history_before, history_arg, exchange_log,
          chat_messages, session_id, forum_posts, sync_response, sync_trace,
          create_requests, clock, issued_tokens, refresh_request, refresh_response>>

NoResponse == [none |-> TRUE]

NoLLM == [ok |-> FALSE, content |-> <<>>]

Idle ==
    /\ pc = "idle"
    /\ query = <<>>
    /\ conversation_history = <<>>
    /\ intent = "none"
    /\ history_context = <<>>
    /\ retrieval_query = <<>>
    /\ search_outcome = "none"
    /\ retrieved = <<>>
    /\ filtered = <<>>
    /\ chunks = <<>>
    /\ route = "none"
    /\ llm = NoLLM
    /\ answer = <<>>
    /\ response = NoResponse
    /\ calls = <<>>
    /\ generator_query = <<>>

HistoryInit ==
    /\ history = <<>>
    /\ history_before = <<>>
    /\ history_arg = <<>>
    /\ exchange_log = <<>>

ChatInit ==
    /\ chat_messages = <<>>
    /\ session_id = "none"

NoSyncResponse == [synced |-> {}, conflicts |-> <<>>, errors |-> <<>>]

NoRefreshRequest == [sent |-> FALSE]

NoRefreshResponse == [status |-> 0]

ServiceInit ==
    /\ forum_posts = <<>>
    /\ sync_response = NoSyncResponse
    /\ sync_trace = <<>>
    /\ create_requests = <<>>
    /\ clock = 0
    /\ issued_tokens = {}
    /\ refresh_request = NoRefreshRequest
    /\ refresh_response = NoRefreshResponse

Init == Idle /\ HistoryInit /\ ChatInit /\ ServiceInit

(***************************************************************************)
(* query_rag_system, step by step.                                         *)
(***************************************************************************)

\* a mutant of Call without the early exit for greetings (lines 90-116)
CallNoGreetingExit(q, h) ==
    /\ pc = "idle"
    /\ query' = q
    /\ conversation_history' = h
    /\ intent' = detect_intent(q)
    /\ IF intent' = "casual"
       THEN /\ response' = CasualResponse(q)
            /\ pc' = "done"
       ELSE /\ response' = response
            /\ pc' = "context"
    /\ UNCHANGED <<history_context, retrieval_query, search_outcome, retrieved, filtered,
                   chunks, route, llm, answer, calls>>
    /\ UNCHANGED generator_query
    /\ UNCHANGED callerVars
    /\ UNCHANGED serviceVars

\* lines 63-116: classify, and answer casual messages and greetings at once
Call(q, h) ==
    /\ pc = "idle"
    /\ query' = q
    /\ conversation_history' = h
    /\ intent' = detect_intent(q)
    /\ IF intent' = "casual"
       THEN /\ response' = CasualResponse(q)
            /\ pc' = "done"
       ELSE IF intent' = "greeting"
       THEN /\ response' = GreetingResponse(q)
            /\ pc' = "done"
       ELSE /\ response' = response
            /\ pc' = "context"
    /\ UNCHANGED <<history_context, retrieval_query, search_outcome, retrieved, filtered,
                   chunks, route, llm, answer, calls>>
    /\ UNCHANGED generator_query
    /\ UNCHANGED callerVars
    /\ UNCHANGED serviceVars

\* lines 118-119
BuildContext ==
    /\ pc = "context"
    /\ history_context' = _build_context_from_history(conversation_history, query, intent)
    /\ retrieval_query' = RetrievalQuery(history_context', query)
    /\ calls' = Append(calls, "_build_context_from_history")
    /\ pc' = "search"
    /\ UNCHANGED <<query, conversation_history, intent, search_outcome, retrieved, filtered,
                   chunks, route, llm, answer, response>>
    /\ UNCHANGED generator_query
    /\ UNCHANGED callerVars
    /\ UNCHANGED serviceVars

\* lines 120-121: one search, then the floor
Search(outcome, items) ==
    LET found == search_weaviate(outcome, items)
    IN  /\ pc = "search"
        /\ search_outcome' = outcome
        /\ calls' = Append(calls, "search_weaviate")
        /\ IF found.raised
           THEN /\ pc' = "raised"
                /\ UNCHANGED <<retrieved, filtered, chunks>>
           ELSE /\ retrieved' = found.value
                /\ filtered' = FilterChunks(found.value)
                /\ chunks' = filtered'
                /\ pc' = "route"
        /\ UNCHANGED <<query, conversation_history, intent, history_context, retrieval_query,
                       route, llm, answer, response>>
        /\ UNCHANGED generator_query
        /\ UNCHANGED callerVars
        /\ UNCHANGED serviceVars

\* a mutant of Route without the medication gate: an empty chunk set always
\* goes to the generative fallback
RouteNoMedicationGate ==
    /\ pc = "route"
    /\ IF Len(chunks) = 0
       THEN /\ route' = "generative"
            /\ pc' = "fallback"
       ELSE /\ route' = "retrieved"
            /\ pc' = "generate"
    /\ UNCHANGED <<query, conversation_history, intent, history_context, retrieval_query,
                   search_outcome, retrieved, filtered, chunks, llm, answer, response, calls>>
    /\ UNCHANGED generator_query
    /\ UNCHANGED callerVars
    /\ UNCHANGED serviceVars

\* lines 123-130: the branch on an empty chunk set
Route ==
    /\ pc = "route"
    /\ IF Len(chunks) = 0
       THEN IF _is_medication_query(query)
            THEN /\ chunks' = _get_medication_fallback_chunks(query)
                 /\ calls' = Append(calls, "_get_medication_fallback_chunks")
                 /\ route' = "medication"
                 /\ pc' = "generate"
            ELSE /\ route' = "generative"
                 /\ pc' = "fallback"
                 /\ UNCHANGED <<chunks, calls>>
       ELSE /\ route' = "retrieved"
            /\ pc' = "generate"
            /\ UNCHANGED <<chunks, calls>>
    /\ UNCHANGED <<query, conversation_history, intent, history_context, retrieval_query,
                   search_outcome, retrieved, filtered, llm, answer, response>>
    /\ UNCHANGED generator_query
    /\ UNCHANGED callerVars
    /\ UNCHANGED serviceVars

\* line 130: return generate_fallback_with_groq(query)
GenerateFallback(outcome) ==
    LET result == generate_fallback_with_groq(query, outcome)
    IN  /\ pc = "fallback"
        /\ llm' = outcome
        /\ calls' = calls \o <<"generate_fallback_with_groq", "llm">>
        /\ IF result.raised
           THEN /\ pc' = "raised"
                /\ UNCHANGED response
           ELSE /\ response' = result.value
                /\ pc' = "done"
        /\ UNCHANGED <<query, conversation_history, intent, history_context, retrieval_query,
                       search_outcome, retrieved, filtered, chunks, route, answer>>
        /\ generator_query' = query
        /\ UNCHANGED callerVars
        /\ UNCHANGED serviceVars

\* a mutant of GenerateAnswer that asks the language model again when the
\* completion fails
GenerateAnswerRetry(outcome) ==
    LET result == generate_answer_with_groq(query, chunks, history_context, intent, outcome)
    IN  /\ pc = "generate"
        /\ llm' = outcome
        /\ calls' = calls \o <<"generate_answer_with_groq", "llm">>
        /\ IF ~outcome.ok
           THEN /\ pc' = "generate"
                /\ UNCHANGED answer
           ELSE /\ answer' = result.value
                /\ pc' = "parse"
        /\ UNCHANGED <<query, conversation_history, intent, history_context, retrieval_query,
                       search_outcome, retrieved, filtered, chunks, route, response>>
        /\ generator_query' = query
        /\ UNCHANGED callerVars
        /\ UNCHANGED serviceVars

\* lines 132-137
GenerateAnswer(outcome) ==
    LET result == generate_answer_with_groq(query, chunks, history_context, intent, outcome)
    IN  /\ pc = "generate"
        /\ llm' = outcome
        /\ calls' = calls \o <<"generate_answer_with_groq", "llm">>
        /\ IF result.raised
           THEN /\ pc' = "raised"
                /\ UNCHANGED answer
           ELSE /\ answer' = result.value
                /\ pc' = "parse"
        /\ UNCHANGED <<query, conversation_history, intent, history_context, retrieval_query,
                       search_outcome, retrieved, filtered, chunks, route, response>>
        /\ generator_query' = query
        /\ UNCHANGED callerVars
        /\ UNCHANGED serviceVars

\* lines 139-144
Parse(tie_up) ==
    /\ pc = "parse"
    /\ calls' = Append(calls, "parse_answer_with_confidence")
    /\ response' = [answer |-> answer,
                    sentences |-> parse_answer_with_confidence(answer, chunks, tie_up)]
    /\ pc' = "done"
    /\ UNCHANGED <<query, conversation_history, intent, history_context, retrieval_query,
                   search_outcome, retrieved, filtered, chunks, route, llm, answer>>
    /\ UNCHANGED generator_query
    /\ UNCHANGED callerVars
    /\ UNCHANGED serviceVars

\* the caller has the response; the next call starts from scratch
Return ==
    /\ pc = "done"
    /\ pc' = "idle"
    /\ query' = <<>>
    /\ conversation_history' = <<>>
    /\ intent' = "none"
    /\ history_context' = <<>>
    /\ retrieval_query' = <<>>
    /\ search_outcome' = "none"
    /\ retrieved' = <<>>
    /\ filtered' = <<>>
    /\ chunks' = <<>>
    /\ route' = "none"
    /\ llm' = NoLLM
    /\ answer' = <<>>
    /\ response' = NoResponse
    /\ calls' = <<>>
    /\ generator_query' = <<>>
    /\ UNCHANGED callerVars
    /\ UNCHANGED serviceVars

Next ==
    \/ \E q \in Queries, h \in Histories : Call(q, h)
    \/ BuildContext
    \/ \E outcome \in SearchOutcomes \ {"ok"} : Search(outcome, <<>>)
    \/ \E items \in SearchResults : Search("ok", items)
    \/ Route
    \/ \E outcome \in LLMOutcomes : GenerateFallback(outcome)
    \/ \E outcome \in LLMOutcomes : GenerateAnswer(outcome)
    \/ \E tie_up \in BOOLEAN : Parse(tie_up)
    \/ Return

Spec == Init /\ [][Next]_vars

(***************************************************************************)
(* The parser on its own: parse_answer_with_confidence applied to every    *)
(* answer of ParseAnswers and every chunk list over ParseChunks.           *)
(***************************************************************************)

ParseChunkLists == SeqsUpTo(ParseChunks, MaxChunks)

InitParse ==
    /\ pc = "parse"
    /\ query = <<>>
    /\ conversation_history = <<>>
    /\ intent = "none"
    /\ history_context = <<>>
    /\ retrieval_query = <<>>
    /\ search_outcome = "none"
    /\ retrieved = <<>>
    /\ filtered = <<>>
    /\ chunks \in ParseChunkLists
    /\ route = "none"
    /\ llm = NoLLM
    /\ answer \in ParseAnswers
    /\ response = NoResponse
    /\ calls = <<>>
    /\ generator_query = <<>>
    /\ HistoryInit
    /\ ChatInit
    /\ ServiceInit

NextParse == \E tie_up \in BOOLEAN : Parse(tie_up)

SpecParse == InitParse /\ [][NextParse]_vars

(***************************************************************************)
(* The caller's loop of the module docstring (USAGE): each returned        *)
(* history is fed into the next add_to_history call.                       *)
(***************************************************************************)

AddToHistory(question, reply) ==
    LET result == add_to_history(history, question, reply, max_turns)
    IN  /\ Len(exchange_log) < MaxExchanges
        /\ history' = result.returned
        /\ history_before' = history
        /\ history_arg' = result.mutated
        /\ exchange_log' = Append(exchange_log, [question |-> question, answer |-> reply])
        /\ UNCHANGED ragVars
        /\ UNCHANGED chatVars
        /\ UNCHANGED serviceVars

NextHistory == \E question \in HistoryQuestions : AddToHistory(question, <<"a",".">>)

SpecHistory == Init /\ [][NextHistory]_vars


(***************************************************************************)
(* The classifier on its own: query_rag_system called with every phrase    *)
(* of the patterns of detect_intent, alone and followed by punctuation,    *)
(* whitespace or more text, in lower and in upper case.                    *)
(***************************************************************************)

\* the alternatives a1, a2, ... of a list of patterns
PatternAlternatives(patterns) ==
    UNION {{patterns[k].alts[j] : j \in 1..Len(patterns[k].alts)} : k \in 1..Len(patterns)}

UpperChar(c) ==
    IF \E k \in 1..Len(LowerLetters) : LowerLetters[k] = c
    THEN UpperLetters[CHOOSE k \in 1..Len(LowerLetters) : LowerLetters[k] = c]
    ELSE c

\* str.upper()
upper(s) == [i \in 1..Len(s) |-> UpperChar(s[i])]

IntentPhrases ==
    PatternAlternatives(casual_patterns) \cup PatternAlternatives(greeting_patterns)
    \cup PatternAlternatives(followup_patterns)
    \cup PatternAlternatives(clarification_patterns)
    \cup {<<"v","i","t","a","m","i","n">>, <<"n","a","u","s","e","a"," ","t","i","p","s">>}

IntentSuffixes == {<<>>, <<"!">>, <<".">>, <<",">>, <<"?">>, <<" ">>, <<" "," ","!">>, <<"!","!">>, <<" ","n","o","w">>, <<"x">>}

IntentQueries ==
    LET plain == {p \o x : p \in IntentPhrases, x \in IntentSuffixes}
    IN  plain \cup {upper(q) : q \in plain} \cup {<<" ">> \o q : q \in plain}

NextIntent ==
    \/ \E q \in IntentQueries : Call(q, <<>>)
    \/ Return

SpecIntent == Init /\ [][NextIntent]_vars

(***************************************************************************)
(* The context builder on its own: query_rag_system at line 118, with      *)
(* histories of up to MaxContextHistory turns whose questions share terms  *)
(* with the query.                                                         *)
(***************************************************************************)

\* the longest history given to the context builder on its own
MaxContextHistory == 3

ContextTurns == {
    [question |-> <<"n","a","u","s","e","a"," ","t","i","p","s"," ","e","a","r","l","y">>, answer |-> <<"E","a","t"," ","s","m","a","l","l"," ","m","e","a","l","s","."," ","R","e","s","t",".">>],
    [question |-> <<"n","a","u","s","e","a"," ","t","i","p","s"," ","a","t"," ","n","i","g","h","t">>, answer |-> <<"S","i","p"," ","w","a","t","e","r",".">>],
    [question |-> <<"i","s"," ","n","a","u","s","e","a"," ","n","o","r","m","a","l">>, answer |-> <<"Y","e","s","."," ","O","f","t","e","n",".">>] }

ContextQueries == {
    <<"n","a","u","s","e","a"," ","t","i","p","s">>,
    <<"v","i","t","a","m","i","n">>,
    <<"W","h","a","t"," ","a","b","o","u","t"," ","d","o","s","a","g","e","?">>,
    <<"e","x","p","l","a","i","n"," ","n","a","u","s","e","a">>,
    <<"i","s"," ","i","t"," ","o","k">>,
    <<
        "n","a","u","s","e","a"," ","t","i","p","s"," ","e","a","r","l","y"," ","n","i",
        "g","h","t"," ","n","o","r","m","a","l"," ","s","l","e","e","p"," ","f","o","o",
        "d"," ","w","a","t","e","r"," ","i","r","o","n"," ","f","o","l","i","c">> }

\* a turn that shares no term with any query
UnrelatedTurn == [question |-> <<"b","a","c","k"," ","p","a","i","n">>, answer |-> <<"S","t","r","e","t","c","h",".">>]

\* histories longer than the 5 turns _find_topical_overlaps looks at
LongHistories == {
    <<[question |-> <<"n","a","u","s","e","a"," ","t","i","p","s"," ","e","a","r","l","y">>, answer |-> <<"E","a","t"," ","s","m","a","l","l"," ","m","e","a","l","s","."," ","R","e","s","t",".">>],
      UnrelatedTurn, UnrelatedTurn, UnrelatedTurn, UnrelatedTurn, UnrelatedTurn>>,
    <<[question |-> <<"i","s"," ","n","a","u","s","e","a"," ","n","o","r","m","a","l">>, answer |-> <<"Y","e","s","."," ","O","f","t","e","n",".">>],
      UnrelatedTurn, UnrelatedTurn, UnrelatedTurn, UnrelatedTurn,
      [question |-> <<"n","a","u","s","e","a"," ","t","i","p","s"," ","a","t"," ","n","i","g","h","t">>, answer |-> <<"S","i","p"," ","w","a","t","e","r",".">>]>> }

ContextHistories == SeqsUpTo(ContextTurns, MaxContextHistory) \cup LongHistories

InitContext ==
    /\ pc = "context"
    /\ query \in ContextQueries
    /\ conversation_history \in ContextHistories
    /\ intent = detect_intent(query)
    /\ history_context = <<>>
    /\ retrieval_query = <<>>
    /\ search_outcome = "none"
    /\ retrieved = <<>>
    /\ filtered = <<>>
    /\ chunks = <<>>
    /\ route = "none"
    /\ llm = NoLLM
    /\ answer = <<>>
    /\ response = NoResponse
    /\ calls = <<>>
    /\ generator_query = <<>>
    /\ HistoryInit
    /\ ChatInit
    /\ ServiceInit

NextContext == BuildContext

SpecContext == InitContext /\ [][NextContext]_vars

(***************************************************************************)
(* POST /chat/query (app/api/chat.py, chat_query): the endpoint saves the  *)
(* user's message, runs the pipeline, saves the assistant's message and    *)
(* answers.                                                                *)
(***************************************************************************)

\* the most ChatMessage rows saved
MaxChatMessages == 4

ChatSessions == {"s1", "s2"}

ChatQueries == {<<"I","s"," ","p","a","r","a","c","e","t","a","m","o","l"," ","s","a","f","e","?">>, <<"W","h","a","t"," ","a","b","o","u","t"," ","d","o","s","a","g","e","?">>, <<"n","a","u","s","e","a"," ","t","i","p","s">>}

ChatSearchResults == {
    <<[content |-> <<"R","e","s","t"," ","h","e","l","p","s",".">>, source_url |-> <<"u","/","a">>, title |-> <<"A">>, score |-> 92]>> }

ChatLLMOutcomes == {
    [ok |-> FALSE, content |-> <<>>],
    [ok |-> TRUE, content |-> <<
        "I","t"," ","i","s"," ","s","a","f","e"," ","[","1","]","."," ","A","s","k"," ",
        "a"," ","d","o","c","t","o","r",".">>] }

\* chat.py lines 66-80: save the user message, then query_rag_system(request.query);
\* no history is passed, so conversation_history is its default, None
ChatQuery(q, sid) ==
    /\ pc = "idle"
    /\ Len(chat_messages) + 2 <= MaxChatMessages
    /\ session_id' = sid
    /\ chat_messages' = Append(chat_messages,
                               [session_id |-> sid, role |-> "user", content |-> q])
    /\ query' = q
    /\ conversation_history' = <<>>
    /\ intent' = detect_intent(q)
    /\ IF intent' = "casual"
       THEN /\ response' = CasualResponse(q)
            /\ pc' = "done"
       ELSE IF intent' = "greeting"
       THEN /\ response' = GreetingResponse(q)
            /\ pc' = "done"
       ELSE /\ response' = response
            /\ pc' = "context"
    /\ UNCHANGED <<history_context, retrieval_query, search_outcome, retrieved, filtered,
                   chunks, route, llm, answer, calls>>
    /\ UNCHANGED generator_query
    /\ UNCHANGED historyVars
    /\ UNCHANGED serviceVars

\* chat.py lines 82-113: save the assistant message and answer the request
ChatRespond ==
    /\ pc = "done"
    /\ chat_messages' = Append(chat_messages,
                               [session_id |-> session_id, role |-> "assistant",
                                content |-> response.answer])
    /\ session_id' = "none"
    /\ pc' = "idle"
    /\ query' = <<>>
    /\ conversation_history' = <<>>
    /\ intent' = "none"
    /\ history_context' = <<>>
    /\ retrieval_query' = <<>>
    /\ search_outcome' = "none"
    /\ retrieved' = <<>>
    /\ filtered' = <<>>
    /\ chunks' = <<>>
    /\ route' = "none"
    /\ llm' = NoLLM
    /\ answer' = <<>>
    /\ response' = NoResponse
    /\ calls' = <<>>
    /\ generator_query' = <<>>
    /\ UNCHANGED historyVars
    /\ UNCHANGED serviceVars

NextChat ==
    \/ \E q \in ChatQueries, sid \in ChatSessions : ChatQuery(q, sid)
    \/ BuildContext
    \/ Search("no_client", <<>>)
    \/ \E items \in ChatSearchResults : Search("ok", items)
    \/ Route
    \/ \E outcome \in ChatLLMOutcomes : GenerateFallback(outcome)
    \/ \E outcome \in ChatLLMOutcomes : GenerateAnswer(outcome)
    \/ \E tie_up \in BOOLEAN : Parse(tie_up)
    \/ ChatRespond

SpecChat == Init /\ [][NextChat]_vars

(***************************************************************************)
(* The forum: posts, the offline sync of sync_service.py and the           *)
(* create-post endpoint of api/forum.py.  The table forum_posts is a       *)
(* sequence; the autoincrement id of a post is its position.               *)
(***************************************************************************)

MaxBatchLen == 2

MaxSyncOps == 3

MaxPostId == 2

MaxCreateRequests == 3

ForumUsers == {"u1", "u2"}

\* Python's None, for a client_id that is absent
NoClientId == "None"

SyncClientIds == {"c1", "c2"}

ForumPost(title, content, user_id, client_id) ==
    [title |-> title, content |-> content, user_id |-> user_id, client_id |-> client_id,
     version |-> 1, is_deleted |-> FALSE]

\* the rows matched by filter(ForumPost.client_id == client_id)
PostsByClientId(posts, client_id) == {i \in DOMAIN posts : posts[i].client_id = client_id}

\* .first() of a query without ORDER BY over a single matching row is that
\* row; where several rows match, the actions below choose among them
First(ids) == CHOOSE i \in ids : \A j \in ids : i <= j

_sync_create_post(posts, data, client_id, user_id) ==
    LET existing == PostsByClientId(posts, client_id)
    IN  IF existing # {}
        THEN [posts |-> posts, result |-> Ok(First(existing))]
        ELSE IF ~({"title", "content"} \subseteq DOMAIN data)
        THEN [posts |-> posts, result |-> Raise]      \* KeyError at line 74 or 75
        ELSE [posts |-> Append(posts, ForumPost(data.title, data.content, user_id, client_id)),
              result |-> Ok(Len(posts) + 1)]

_sync_update_post(posts, data, user_id) ==
    LET post_id == data.id
        client_version == IF "version" \in DOMAIN data THEN data.version ELSE 1
    IN  IF post_id \notin DOMAIN posts
        THEN [posts |-> posts, result |-> [conflict |-> TRUE, reason |-> "Post not found"]]
        ELSE IF posts[post_id].user_id # user_id
        THEN [posts |-> posts, result |-> [conflict |-> TRUE, reason |-> "Not authorized"]]
        ELSE IF posts[post_id].version > client_version
        THEN [posts |-> posts,
              result |-> [conflict |-> TRUE, reason |-> "Version conflict",
                          server_version |-> posts[post_id].version,
                          client_version |-> client_version]]
        ELSE [posts |-> [posts EXCEPT ![post_id] =
                            [@ EXCEPT !.content = IF "content" \in DOMAIN data
                                                  THEN data.content ELSE @,
                                      !.version = @ + 1]],
              result |-> [success |-> TRUE]]

_sync_delete_post(posts, data, user_id) ==
    LET post_id == data.id
    IN  IF post_id \in DOMAIN posts /\ posts[post_id].user_id = user_id
        THEN [posts EXCEPT ![post_id] = [@ EXCEPT !.is_deleted = TRUE, !.version = @ + 1]]
        ELSE posts

\* synced[client_id] = result
SetSynced(synced, client_id, id) ==
    {p \in synced : p[1] # client_id} \cup {<<client_id, id>>}

\* one turn of the loop of process_sync_batch (lines 26-54); st holds the
\* table and the three collections of the response, and trace records what
\* the operation did to the table and where it was reported
SyncStep(st, op, user_id) ==
    LET entry(after, reported) ==
            [op |-> op, user_id |-> user_id, before |-> st.posts, after |-> after,
             reported |-> reported]
    IN  CASE op.type = "create_post" ->
                LET r == _sync_create_post(st.posts, op.data, op.client_id, user_id)
                IN  IF r.result.raised
                    THEN [st EXCEPT !.errors = Append(@, [client_id |-> op.client_id,
                                                          error |-> "KeyError"]),
                                    !.trace = Append(@, entry(st.posts, "errors"))]
                    ELSE [st EXCEPT !.posts = r.posts,
                                    !.synced = SetSynced(@, op.client_id, r.result.value),
                                    !.trace = Append(@, entry(r.posts, "synced"))]
          [] op.type = "update_post" ->
                LET r == _sync_update_post(st.posts, op.data, user_id)
                IN  IF "conflict" \in DOMAIN r.result
                    THEN [st EXCEPT !.conflicts = Append(@, r.result),
                                    !.trace = Append(@, entry(st.posts, "conflicts"))]
                    ELSE [st EXCEPT !.posts = r.posts,
                                    !.trace = Append(@, entry(r.posts, "none"))]
          [] op.type = "delete_post" ->
                LET after == _sync_delete_post(st.posts, op.data, user_id)
                IN  [st EXCEPT !.posts = after, !.trace = Append(@, entry(after, "none"))]
          [] OTHER ->
                [st EXCEPT !.errors = Append(@, [client_id |-> op.client_id,
                                                 error |-> "Unknown operation"]),
                           !.trace = Append(@, entry(st.posts, "errors"))]

RECURSIVE SyncLoop(_, _, _)
SyncLoop(st, operations, user_id) ==
    IF operations = <<>> THEN st
    ELSE SyncLoop(SyncStep(st, Head(operations), user_id), Tail(operations), user_id)

process_sync_batch(operations, user_id, posts) ==
    SyncLoop([posts |-> posts, synced |-> {}, conflicts |-> <<>>, errors |-> <<>>,
              trace |-> <<>>], operations, user_id)

\* the operations an offline client can queue
SyncOperations ==
    {[type |-> "create_post", client_id |-> c,
      data |-> [title |-> "t", content |-> "draft"]] : c \in SyncClientIds}
    \cup {[type |-> "create_post", client_id |-> "c1", data |-> [title |-> "t"]]}
    \cup {[type |-> "update_post", client_id |-> NoClientId,
           data |-> [id |-> i, version |-> v, content |-> "edited"]] :
              i \in 1..MaxPostId, v \in 1..2}
    \cup {[type |-> "update_post", client_id |-> NoClientId,
           data |-> [id |-> i, content |-> "edited"]] : i \in 1..MaxPostId}
    \cup {[type |-> "delete_post", client_id |-> NoClientId, data |-> [id |-> i]] :
              i \in 1..MaxPostId}
    \cup {[type |-> "like_post", client_id |-> NoClientId, data |-> [id |-> 1]]}

SyncBatches == UNION {[1..n -> SyncOperations] : n \in 0..MaxBatchLen}

authVars == <<clock, issued_tokens, refresh_request, refresh_response>>

\* POST /forum/sync (api/forum.py line 424): one whole batch
ProcessSyncBatch(operations, user_id) ==
    LET out == process_sync_batch(operations, user_id, forum_posts)
    IN  /\ Len(sync_trace) + Len(operations) <= MaxSyncOps
        /\ forum_posts' = out.posts
        /\ sync_response' = [synced |-> out.synced, conflicts |-> out.conflicts,
                             errors |-> out.errors]
        /\ sync_trace' = sync_trace \o out.trace
        /\ UNCHANGED create_requests
        /\ UNCHANGED authVars
        /\ UNCHANGED ragVars
        /\ UNCHANGED callerVars

NextSync == \E operations \in SyncBatches, user_id \in ForumUsers :
                ProcessSyncBatch(operations, user_id)

SpecSync == Init /\ [][NextSync]_vars

(***************************************************************************)
(* Create-post requests served concurrently, each in its own database      *)
(* session: a request first runs the query by client_id, then, in a later  *)
(* step, adds its row.  Nothing in the table's definition (models.py 54-96:*)
(* client_id is indexed, not unique) refuses a second row.                 *)
(***************************************************************************)

CreateEndpoints == {"sync", "post"}

\* the first statement of _sync_create_post (line 68) and of create_post
\* (lines 123-126, skipped when the request has no client_id)
CreateQuery(endpoint, client_id, user_id) ==
    /\ Len(create_requests) < MaxCreateRequests
    /\ endpoint = "sync" => client_id # NoClientId
    /\ \E existing \in IF client_id = NoClientId \/ PostsByClientId(forum_posts, client_id) = {}
                       THEN {0} ELSE PostsByClientId(forum_posts, client_id) :
           create_requests' = Append(create_requests,
               [endpoint |-> endpoint, client_id |-> client_id, user_id |-> user_id,
                existing |-> existing, id |-> 0, stage |-> "queried"])
    /\ UNCHANGED <<forum_posts, sync_response, sync_trace>>
    /\ UNCHANGED authVars
    /\ UNCHANGED ragVars
    /\ UNCHANGED callerVars

\* the rest of the request: return the row found, or add a new one
CreateInsert(r) ==
    /\ r \in DOMAIN create_requests
    /\ create_requests[r].stage = "queried"
    /\ IF create_requests[r].existing # 0
       THEN /\ create_requests' = [create_requests EXCEPT ![r].id = create_requests[r].existing,
                                                          ![r].stage = "done"]
            /\ UNCHANGED forum_posts
       ELSE /\ forum_posts' = Append(forum_posts,
                                  ForumPost("t", "draft", create_requests[r].user_id,
                                            create_requests[r].client_id))
            /\ create_requests' = [create_requests EXCEPT ![r].id = Len(forum_posts) + 1,
                                                          ![r].stage = "done"]
    /\ UNCHANGED <<sync_response, sync_trace>>
    /\ UNCHANGED authVars
    /\ UNCHANGED ragVars
    /\ UNCHANGED callerVars

NextCreate ==
    \/ \E endpoint \in CreateEndpoints, client_id \in {"c1", NoClientId},
          user_id \in ForumUsers : CreateQuery(endpoint, client_id, user_id)
    \/ \E r \in 1..MaxCreateRequests : CreateInsert(r)

SpecCreate == Init /\ [][NextCreate]_vars

(***************************************************************************)
(* Tokens (core/security.py) and POST /auth/refresh (api/auth.py).  A JWT  *)
(* is its payload and the key that signed it; time is counted in days.     *)
(***************************************************************************)

ACCESS_TOKEN_EXPIRE_DAYS == 1

REFRESH_TOKEN_EXPIRE_DAYS == 7

MaxClock == 8

MaxLogins == 1

MaxTokens == 4

SECRET_KEY == "SECRET_KEY"

\* Python's None, for the user id verify_token did not find
NoUser == "None"

create_access_token(data, now) ==
    [payload |-> [sub |-> data.sub, exp |-> now + ACCESS_TOKEN_EXPIRE_DAYS],
     key |-> SECRET_KEY, wellformed |-> TRUE]

create_refresh_token(data, now) ==
    [payload |-> [sub |-> data.sub, exp |-> now + REFRESH_TOKEN_EXPIRE_DAYS,
                  type |-> "refresh"],
     key |-> SECRET_KEY, wellformed |-> TRUE]

\* jose's jwt.decode: JWTError for a malformed token, a wrong signature or
\* an expiry in the past
jwt_decode(token, now) ==
    IF ~token.wellformed \/ token.key # SECRET_KEY \/ token.payload.exp < now
    THEN Raise
    ELSE Ok(token.payload)

verify_token(token, now) ==
    LET decoded == jwt_decode(token, now)
    IN  IF decoded.raised THEN NoUser
        ELSE IF "sub" \notin DOMAIN decoded.value THEN NoUser
        ELSE decoded.value.sub

\* AuthService.refresh_access_token
AuthService_refresh_access_token(user_id, now) == create_access_token([sub |-> user_id], now)

Malformed == [payload |-> [exp |-> 0], key |-> "none", wellformed |-> FALSE]

\* what a client can send: a token the server signed, the same payload
\* signed with another key, or a string that is no JWT
PresentableTokens ==
    issued_tokens \cup {[t EXCEPT !.key = "attacker"] : t \in issued_tokens} \cup {Malformed}

forumVars == <<forum_posts, sync_response, sync_trace, create_requests>>

\* the last step of AuthService.authenticate_with_firebase (lines 75-76)
Login(user_id) ==
    /\ Cardinality({t \in issued_tokens : "type" \in DOMAIN t.payload}) < MaxLogins
    /\ issued_tokens' = issued_tokens \cup {create_access_token([sub |-> user_id], clock),
                                            create_refresh_token([sub |-> user_id], clock)}
    /\ UNCHANGED <<clock, refresh_request, refresh_response>>
    /\ UNCHANGED forumVars
    /\ UNCHANGED ragVars
    /\ UNCHANGED callerVars

Tick ==
    /\ clock < MaxClock
    /\ clock' = clock + 1
    /\ UNCHANGED <<issued_tokens, refresh_request, refresh_response>>
    /\ UNCHANGED forumVars
    /\ UNCHANGED ragVars
    /\ UNCHANGED callerVars

\* POST /auth/refresh
refresh_access_token(token) ==
    LET user_id == verify_token(token, clock)
        new_access_token == AuthService_refresh_access_token(user_id, clock)
    IN  /\ refresh_request' = [sent |-> TRUE, refresh_token |-> token, at |-> clock]
        /\ IF user_id = NoUser
           THEN /\ refresh_response' = [status |-> 401,
                                        detail |-> "Invalid or expired refresh token"]
                /\ UNCHANGED issued_tokens
           ELSE /\ Cardinality(issued_tokens \cup {new_access_token}) <= MaxTokens
                /\ refresh_response' = [status |-> 200, access_token |-> new_access_token,
                                        token_type |-> "bearer", expires_in |-> 3600]
                /\ issued_tokens' = issued_tokens \cup {new_access_token}
        /\ UNCHANGED clock
        /\ UNCHANGED forumVars
        /\ UNCHANGED ragVars
        /\ UNCHANGED callerVars

NextAuth ==
    \/ \E user_id \in ForumUsers : Login(user_id)
    \/ Tick
    \/ \E token \in PresentableTokens : refresh_access_token(token)

SpecAuth == Init /\ [][NextAuth]_vars
(***************************************************************************)
(* Properties.                                                             *)
(***************************************************************************)

InCalls(name) == \E k \in 1..Len(calls) : calls[k] = name

Pipeline == intent \in {"follow_up", "clarification", "medical_question"}

AllBelowFloor(cs) == \A k \in 1..Len(cs) : cs[k].score < 65

Confidences(r) == [k \in 1..Len(r.sentences) |-> r.sentences[k].confidence]

\* C1: in a call whose filtered retrieval is empty and whose query is a
\* medication query, the language model is never invoked.
C1_MedicationGateNeverCallsLLM ==
    (Pipeline /\ pc \in {"generate", "parse", "done"}
        /\ Len(filtered) = 0 /\ _is_medication_query(query))
        => ~InCalls("llm")

\* C2: a call classified casual or greeting returns at once, with no call to
\* the history context builder, the vector-store search or the language model.
C2_CasualGreetingCallNothing ==
    intent \in {"casual", "greeting"}
        => /\ pc = "done"
           /\ ~InCalls("_build_context_from_history")
           /\ ~InCalls("search_weaviate")
           /\ ~InCalls("llm")

C2_Witness ==
    /\ pc = "done"
    /\ intent = "greeting"
    /\ Len(conversation_history) > 0
    /\ _is_medication_query(query)

\* how far a call has got
Stage(p) ==
    CASE p = "idle" -> 0
      [] p = "context" -> 1
      [] p = "search" -> 2
      [] p = "route" -> 3
      [] p \in {"fallback", "generate"} -> 4
      [] p = "parse" -> 5
      [] p = "done" -> 6
      [] p = "raised" -> 7

\* C3: query_rag_system never raises: whatever the vector store and the
\* language model do, no step of a call raises to the caller, every step
\* takes the call further (so it ends), and the call ends by returning a
\* response with an answer and a sentences list.
C3_NeverRaises ==
    /\ [](pc # "raised")
    /\ [](pc = "done" => {"answer", "sentences"} \subseteq DOMAIN response)
    /\ [][pc = "done" \/ Stage(pc') > Stage(pc)]_vars

C3_Witness ==
    /\ pc = "done"
    /\ search_outcome = "exception"
    /\ InCalls("llm")
    /\ ~llm.ok
    /\ route = "medication"

\* C4: every response returned by query_rag_system holds at least one
\* sentence, whatever text the language model returned.
C4_AtLeastOneSentence == pc = "done" => Len(response.sentences) >= 1

\* C5: every chunk of the chunk set passed to generate_answer_with_groq and
\* to parse_answer_with_confidence scores at least 0.65.
C5_RetrievalFloor ==
    (pc \in {"generate", "parse"} \/ InCalls("generate_answer_with_groq"))
        => \A k \in 1..Len(chunks) : chunks[k].score >= 65

C5_Witness ==
    /\ pc = "parse"
    /\ Len(chunks) > 0
    /\ Len(retrieved) > Len(chunks)

\* C6: with chunk scores in [0,1], every sentence parse_answer_with_confidence
\* returns has a confidence in [0,1], and a confidence of exactly 0.5 when
\* none of its citations resolved.
C6_ConfidenceRange ==
    pc = "done" =>
        \A k \in 1..Len(response.sentences) :
            LET s == response.sentences[k]
            IN  /\ 0 <= s.confidence /\ s.confidence <= 100
                /\ Len(s.sources) = 0 => s.confidence = 50

C6_Witness ==
    /\ pc = "done"
    /\ \E k \in 1..Len(response.sentences) :
           /\ Len(response.sentences[k].sources) = 2
           /\ response.sentences[k].confidence > 50
    /\ \E k \in 1..Len(response.sentences) : Len(response.sentences[k].sources) = 0

\* C7 as stated: when every retrieved chunk is below the floor and the query
\* is not a medication query, the response has fallback_type set and every
\* sentence has confidence <= 0.45, whether or not the language model failed.
C7_FallbackAtMost45 ==
    (pc = "done" /\ Pipeline /\ AllBelowFloor(retrieved) /\ ~_is_medication_query(query))
        => /\ "fallback_type" \in DOMAIN response
           /\ \A k \in 1..Len(response.sentences) : response.sentences[k].confidence <= 45

\* C7 as amended: when every retrieved chunk is below the floor and the query
\* is not a medication query, the response has fallback_type set; every
\* sentence has confidence <= 0.45 when the fallback language-model call
\* succeeded, and when it failed the response is the canned one, whose two
\* sentences have confidences 0.3 and 0.9.
C7_FallbackConfidence ==
    (pc = "done" /\ Pipeline /\ AllBelowFloor(retrieved) /\ ~_is_medication_query(query))
        => /\ "fallback_type" \in DOMAIN response
           /\ llm.ok =>
                  \A k \in 1..Len(response.sentences) : response.sentences[k].confidence <= 45
           /\ ~llm.ok => Confidences(response) = <<30, 90>>

C7_Witness ==
    /\ pc = "done"
    /\ Pipeline
    /\ Len(retrieved) > 0
    /\ AllBelowFloor(retrieved)
    /\ ~_is_medication_query(query)
    /\ ~llm.ok

\* C8: generate_fallback_with_groq is called exactly when the intent is not
\* casual or greeting, the filtered chunk set is empty and the query is not a
\* medication query; its result is returned at once, with no call to
\* generate_answer_with_groq or parse_answer_with_confidence.
C8_FallbackIffAndTerminal ==
    /\ pc = "done" =>
           (InCalls("generate_fallback_with_groq")
               <=> (Pipeline /\ Len(filtered) = 0 /\ ~_is_medication_query(query)))
    /\ InCalls("generate_fallback_with_groq") =>
           /\ pc = "done"
           /\ ~InCalls("generate_answer_with_groq")
           /\ ~InCalls("parse_answer_with_confidence")

C8_Witness ==
    /\ pc = "done"
    /\ InCalls("generate_fallback_with_groq")
    /\ Len(retrieved) > 0

MentionsIbuprofen == IsSubstring(<<"i","b","u","p","r","o","f","e","n">>, lower(query))

MentionsParacetamol == IsSubstring(<<"p","a","r","a","c","e","t","a","m","o","l">>, lower(query))

MentionsAspirin == IsSubstring(<<"a","s","p","i","r","i","n">>, lower(query))

\* C9 as stated: a query that contains "ibuprofen" and reaches the medication
\* gate gets exactly the ibuprofen entry, score 0.88, whatever else it contains.
C9_IbuprofenWhateverElse ==
    (route = "medication" /\ MentionsIbuprofen) => chunks = <<IbuprofenChunk>>

\* C9 as amended: a query that contains "ibuprofen" but not "paracetamol" and
\* reaches the medication gate gets exactly the ibuprofen entry, score 0.88,
\* whatever else it contains; one that also contains "paracetamol" gets the
\* paracetamol entry, the first match of the table.
C9_IbuprofenUnlessParacetamol ==
    (route = "medication" /\ MentionsIbuprofen)
        => /\ Len(chunks) = 1
           /\ ~MentionsParacetamol => (chunks[1] = IbuprofenChunk /\ chunks[1].score = 88)
           /\ MentionsParacetamol => chunks[1] = ParacetamolChunk

C9_Witness ==
    /\ route = "medication"
    /\ MentionsIbuprofen
    /\ MentionsAspirin
    /\ chunks = <<IbuprofenChunk>>

\* C10: fed its own result n times from an empty history, add_to_history
\* returns the last min(n, 10) exchanges in their order; after 15 exchanges,
\* exchanges 6..15.
C10_HistoryBound ==
    LET n == Len(exchange_log)
        m == IF n < 10 THEN n ELSE 10
    IN  /\ Len(history) = m
        /\ \A k \in 1..m : history[k] = exchange_log[n - m + k]

C10_Witness ==
    /\ Len(exchange_log) = 15
    /\ Len(history) = 10
    /\ history[1] = exchange_log[6]
    /\ exchange_log[5] # exchange_log[6]

Intents == {"casual", "greeting", "follow_up", "clarification", "medical_question"}

\* C11: detect_intent gives every query exactly one of the five intents, the
\* first in the order casual, greeting, follow_up, clarification whose
\* patterns match and medical_question if none does, the same one each time
\* the query is classified; a query matching a casual or greeting pattern and
\* a follow-up pattern is never follow_up.
C11_IntentPriority ==
    pc # "idle" =>
        LET query_lower == strip(lower(query))
            is_casual == MatchesAny(casual_patterns, query_lower)
            is_greeting == MatchesAny(greeting_patterns, query_lower)
            is_followup == MatchesAny(followup_patterns, query_lower)
            is_clarification == MatchesAny(clarification_patterns, query_lower)
        IN  /\ intent \in Intents
            /\ intent = detect_intent(query)
            /\ is_casual => intent = "casual"
            /\ (~is_casual /\ is_greeting) => intent = "greeting"
            /\ (~is_casual /\ ~is_greeting /\ is_followup) => intent = "follow_up"
            /\ (~is_casual /\ ~is_greeting /\ ~is_followup /\ is_clarification)
                   => intent = "clarification"
            /\ (~is_casual /\ ~is_greeting /\ ~is_followup /\ ~is_clarification)
                   => intent = "medical_question"

C11_Witness ==
    /\ pc = "done"
    /\ intent = "casual"
    /\ MatchesAny(followup_patterns, strip(lower(query)))

\* the phrases of the casual and greeting patterns
CasualGreetingPhrases ==
    PatternAlternatives(casual_patterns) \cup PatternAlternatives(greeting_patterns)

\* s is one of the phrases, optionally followed by one punctuation mark
IsWholePhrase(s) ==
    LET body == IF Len(s) > 0 /\ s[Len(s)] \in {"!", ",", ".", "?"}
                THEN RStrip(SubSeq(s, 1, Len(s) - 1))
                ELSE s
    IN  body \in CasualGreetingPhrases

\* C12: a query is classified casual or greeting only if the whole of the
\* lower-cased, trimmed query is one of the casual or greeting phrases,
\* optionally followed by one punctuation mark.
C12_WholeStringAnchored ==
    (pc # "idle" /\ intent \in {"casual", "greeting"}) => IsWholePhrase(strip(lower(query)))

\* the first index from i on that holds whitespace (Len(s) + 1 if none)
RECURSIVE WordEnd(_, _)
WordEnd(s, i) == IF i <= Len(s) /\ ~IsSpace(s[i]) THEN WordEnd(s, i + 1) ELSE i

\* the words of s: its maximal runs of characters that are not whitespace
Words(s) ==
    LET starts == SelectSeq(Indices(s),
                            LAMBDA i : ~IsSpace(s[i]) /\ (i = 1 \/ IsSpace(s[i - 1])))
    IN  [k \in 1..Len(starts) |-> SubSeq(s, starts[k], WordEnd(s, starts[k]) - 1)]

\* s with every character of every [n] marker blanked
MarkersBlanked(s) ==
    LET starts == CitationStarts(s)
    IN  [i \in 1..Len(s) |->
            IF \E k \in 1..Len(starts) : starts[k] <= i /\ i < CitationEnd(s, starts[k])
            THEN " "
            ELSE s[i]]

SentenceTexts(r) == [k \in 1..Len(r.sentences) |-> r.sentences[k].text]

\* C13: the texts of the sentences parse_answer_with_confidence returns, in
\* order, hold exactly the words of the answer without its [n] markers, in
\* the same order.
C13_RoundTrip ==
    pc = "done" =>
        Words(Join(<<" ">>, SentenceTexts(response))) = Words(MarkersBlanked(answer))

C13_Witness ==
    /\ pc = "done"
    /\ Len(response.sentences) >= 2
    /\ Len(Citations(answer)) > 0
    /\ IsSubstring(<<"s", "[", "1", "]", ".">>, answer)

\* C19: no sentence returned by parse_answer_with_confidence has a text that
\* is empty or holds whitespace only.
C19_NoBlankSentenceText ==
    pc = "done" =>
        \A k \in 1..Len(response.sentences) : Len(strip(response.sentences[k].text)) > 0

\* how many times name was called in this call of query_rag_system
CountCalls(name) == Cardinality({k \in 1..Len(calls) : calls[k] = name})

\* C14: in one call of query_rag_system the vector store is searched at most
\* once and the language model is asked at most once; a failed search is
\* followed by routing on an empty result, a failed completion by the
\* degraded answer (main path) or the canned response (generative fallback).
C14_NoRetry ==
    /\ CountCalls("search_weaviate") <= 1
    /\ CountCalls("llm") <= 1
    /\ (InCalls("search_weaviate") /\ search_outcome # "ok") =>
           (pc # "search" /\ Len(retrieved) = 0)
    /\ (InCalls("generate_answer_with_groq") /\ ~llm.ok) =>
           (pc \in {"parse", "done"} /\ answer = DegradedAnswer(chunks).value)
    /\ (InCalls("generate_fallback_with_groq") /\ ~llm.ok) =>
           (pc = "done" /\ response = CannedFallbackResponse)

C14_Witness ==
    /\ pc = "done"
    /\ search_outcome = "exception"
    /\ route = "generative"
    /\ ~llm.ok
    /\ CountCalls("search_weaviate") = 1
    /\ CountCalls("llm") = 1

\* C15: add_to_history leaves the list its caller passed as it was: after
\* the call that list has the same length and the same turns as before.
C15_CallerHistoryUnchanged == history_arg = history_before

\* the replies of a reply table
Replies(table) == {table[k].response : k \in 1..Len(table)}

\* C16: the response to a casual or greeting query has an answer from the
\* reply table of that intent, or its default, and exactly one sentence: the
\* answer itself, with confidence 0.95 and no sources.
C16_CannedReply ==
    (pc = "done" /\ intent \in {"casual", "greeting"}) =>
        /\ response.answer \in
               (IF intent = "casual"
                THEN Replies(casual_responses) \cup {<<"G","o","t"," ","i","t","!">>}
                ELSE Replies(greetings) \cup {<<"H","i","!"," ","H","o","w"," ","c","a","n"," ","I"," ","h","e","l","p","?">>})
        /\ response.sentences =
               <<[text |-> response.answer, confidence |-> 95, sources |-> <<>>]>>

C16_Witness ==
    /\ pc = "done"
    /\ intent = "greeting"
    /\ response.answer = <<
        "H","i"," ","t","h","e","r","e","!"," ","W","h","a","t"," ","c","a","n"," ","I",
        " ","h","e","l","p"," ","y","o","u"," ","w","i","t","h","?">>
    /\ Len(response.sentences) = 1

\* C17: for a follow_up query with a non-empty history the history context
\* is not empty and comes from the most recent turn alone: it is "Context
\* from earlier: " and the text of that turn's answer before its first '.',
\* whatever the earlier turns are.
C17_FollowUpContext ==
    (intent = "follow_up" /\ Len(conversation_history) > 0 /\ pc \notin {"idle", "context"}) =>
        LET recent == conversation_history[Len(conversation_history)]
        IN  /\ Len(history_context) > 0
            /\ history_context =
                   <<"C","o","n","t","e","x","t"," ","f","r","o","m"," ","e","a","r","l","i","e","r",":"," ">> \o strip(BeforeFirstDot(recent.answer))
            /\ history_context = _build_context_from_history(<<recent>>, query, intent)

C17_Witness ==
    /\ pc = "search"
    /\ intent = "follow_up"
    /\ Len(conversation_history) = 2
    /\ conversation_history[1] # conversation_history[2]
    /\ history_context = <<
        "C","o","n","t","e","x","t"," ","f","r","o","m"," ","e","a","r","l","i","e","r",
        ":"," ","P","a","r","a","c","e","t","a","m","o","l"," ","i","s"," ","s","a","f",
        "e"," ","[","1","]">>

Reverse(s) == [k \in 1..Len(s) |-> s[Len(s) + 1 - k]]

\* the turns among the last 5 whose question shares more than 30% of the
\* query's terms, most recent first
QualifyingMostRecentFirst(h, q) ==
    Reverse(SelectSeq(LastN(h, 5),
                      LAMBDA turn : OverlapAboveThreshold(KeyTerms(q), KeyTerms(turn.question))))

\* C20: _find_topical_overlaps returns the qualifying turns among the last 5
\* most recent first, and the context of a medical_question quotes the two
\* most recent qualifying questions.
C20_MostRecentFirst ==
    (pc = "search" /\ intent = "medical_question" /\ Len(conversation_history) > 0) =>
        LET expected == QualifyingMostRecentFirst(conversation_history, query)
            quoted == Prefix(expected, 2)
            parts == [k \in 1..Len(quoted) |->
                         <<"Y","o","u"," ","p","r","e","v","i","o","u","s","l","y"," ","a","s","k","e","d",":"," ","'">> \o quoted[k].question \o <<"'">>]
        IN  /\ _find_topical_overlaps(conversation_history, query) = expected
            /\ history_context =
                   IF Len(parts) = 0 THEN <<>> ELSE <<"C","o","n","t","e","x","t",":"," ">> \o Join(<<";"," ">>, parts)

\* the session of the request being served already holds an answered exchange
SessionHasExchange ==
    \E k \in 1..Len(chat_messages) :
        chat_messages[k].session_id = session_id /\ chat_messages[k].role = "assistant"

\* C18: a follow-up query sent through POST /chat/query in a session that
\* already holds an exchange is processed with that session's exchanges as
\* conversation history, so with a history context that is not empty.
C18_FollowUpSeesSessionHistory ==
    (pc \notin {"idle", "context"} /\ intent = "follow_up" /\ SessionHasExchange) =>
        (Len(conversation_history) > 0 /\ Len(history_context) > 0)

\* how many times sub occurs in s
CountOccurrences(sub, s) ==
    Cardinality({i \in 0..(Len(s) - Len(sub)) : SubSeq(s, i + 1, i + Len(sub)) = sub})

\* the positions of h among the last 5 whose question shares strictly more
\* than 30% of the terms of q
QualifyingPositions(h, q) ==
    {k \in 1..Len(h) :
        /\ k > Len(h) - 5
        /\ 10 * Cardinality(KeyTerms(q) \cap KeyTerms(h[k].question))
               > 3 * (IF Cardinality(KeyTerms(q)) > 1 THEN Cardinality(KeyTerms(q)) ELSE 1)}

\* C21: _find_topical_overlaps selects exactly the turns among the last 5
\* whose overlap with the query is strictly above 0.30 (each as often as it
\* qualifies); the context of a medical_question quotes min(2, selected)
\* questions and is empty when none is selected.
C21_OverlapSelection ==
    (pc = "search" /\ intent = "medical_question") =>
        LET h == conversation_history
            selected == _find_topical_overlaps(h, query)
            qualifying == QualifyingPositions(h, query)
        IN  /\ Len(selected) = Cardinality(qualifying)
            /\ \A k \in 1..Len(h) :
                   Cardinality({j \in 1..Len(selected) : selected[j] = h[k]})
                       = Cardinality({j \in qualifying : h[j] = h[k]})
            /\ CountOccurrences(<<"Y","o","u"," ","p","r","e","v","i","o","u","s","l","y"," ","a","s","k","e","d",":"," ","'">>, history_context)
                   = (IF Len(selected) > 2 THEN 2 ELSE Len(selected))
            /\ (Len(selected) = 0) <=> (history_context = <<>>)

\* a turn at exactly 0.30 is rejected
C21_Witness ==
    /\ pc = "search"
    /\ intent = "medical_question"
    /\ Cardinality(KeyTerms(query)) = 10
    /\ \E k \in 1..Len(conversation_history) :
           Cardinality(KeyTerms(query) \cap KeyTerms(conversation_history[k].question)) = 3
    /\ history_context = <<>>

\* the pieces of the answer that parse_answer_with_confidence scores
Pieces == NonBlank(SplitSentences(answer))

\* the markers of piece that name a chunk, 1-indexed, in citation order
Resolved(piece) == SelectSeq(Citations(piece), LAMBDA n : 1 <= n /\ n <= Len(chunks))

\* C22: the parser returns whatever the markers are; a marker [0] or [n]
\* with n above the number of chunks adds no source, and a sentence with no
\* marker in range has confidence 0.5 and no sources, as one with no marker.
C22_OutOfRangeIgnored ==
    pc = "done" =>
        /\ Len(response.sentences) = Len(Pieces)
        /\ \A k \in 1..Len(Pieces) :
               /\ Len(response.sentences[k].sources) = Len(Resolved(Pieces[k]))
               /\ Len(Resolved(Pieces[k])) = 0 =>
                      /\ response.sentences[k].confidence = 50
                      /\ response.sentences[k].sources = <<>>

C22_Witness ==
    /\ pc = "done"
    /\ Len(chunks) = 2
    /\ \E k \in 1..Len(Pieces) :
           /\ Citations(Pieces[k]) = <<9, 1>>
           /\ Len(response.sentences[k].sources) = 1
    /\ \E k \in 1..Len(Pieces) :
           /\ Citations(Pieces[k]) = <<0, 2>>
           /\ Len(response.sentences[k].sources) = 1

\* C23: a sentence with a marker in range has the mean of the scores of
\* the chunks its in-range markers name, one term per marker, rounded to a
\* nearest hundredth, and lists those chunks' url and title in marker
\* order, duplicates kept; [n] names the n-th chunk.
C23_MeanOfCited ==
    pc = "done" =>
        \A k \in 1..Len(Pieces) :
            LET resolved == Resolved(Pieces[k])
                n == Len(resolved)
                total == SumScores([j \in 1..n |-> chunks[resolved[j]]])
                c == response.sentences[k].confidence
            IN  n > 0 =>
                    /\ 2 * (n * c - total) <= n
                    /\ 2 * (total - n * c) <= n
                    /\ response.sentences[k].sources =
                           [j \in 1..n |-> [url |-> chunks[resolved[j]].source_url,
                                            title |-> chunks[resolved[j]].title]]

C23_Witness ==
    /\ pc = "done"
    /\ Len(chunks) = 2
    /\ chunks[1].score = 100
    /\ chunks[2].score = 65
    /\ \E k \in 1..Len(Pieces) :
           /\ Citations(Pieces[k]) = <<2, 2, 1>>
           /\ response.sentences[k].confidence = 77
           /\ Len(response.sentences[k].sources) = 3

\* C24: the string sent to the vector store is the query itself when the
\* history context is empty and otherwise the context, a newline and the
\* query, trimmed; the generator and the medication gate are given the
\* query, never that string.
C24_RetrievalString ==
    (Pipeline /\ pc \notin {"idle", "context"}) =>
        /\ retrieval_query =
               IF history_context = <<>> THEN query
               ELSE strip(history_context \o <<"\n">> \o query)
        /\ (Len(conversation_history) = 0) => (retrieval_query = query)
        /\ (InCalls("generate_answer_with_groq") \/ InCalls("generate_fallback_with_groq"))
               => generator_query = query
        /\ (route # "none") =>
               ((route = "medication") <=> (Len(filtered) = 0 /\ _is_medication_query(query)))

C24_Witness ==
    /\ pc = "done"
    /\ Len(history_context) > 0
    /\ retrieval_query # query
    /\ StartsWith(retrieval_query, history_context)
    /\ _is_medication_query(retrieval_query)
    /\ ~_is_medication_query(query)
    /\ route = "generative"
    /\ generator_query = query

\* C25: when the language model fails on the main path, the answer is the
\* fixed frame around the first 200 characters of the first chunk's
\* content, whatever the query, the intent, the context and the other
\* chunks are, and nothing is raised.
C25_DegradedAnswer ==
    (InCalls("generate_answer_with_groq") /\ ~llm.ok) =>
        /\ pc \in {"parse", "done"}
        /\ Len(chunks) > 0
        /\ answer = <<
            "B","a","s","e","d"," ","o","n"," ","a","v","a","i","l","a","b","l","e"," ","i",
            "n","f","o","r","m","a","t","i","o","n",":"," ">>
                    \o SubSeq(chunks[1].content, 1,
                              IF Len(chunks[1].content) > 200 THEN 200
                              ELSE Len(chunks[1].content))
                    \o <<
                        ".",".","."," ","P","l","e","a","s","e"," ","c","o","n","s","u","l","t"," ","y",
                        "o","u","r"," ","h","e","a","l","t","h","c","a","r","e"," ","p","r","o","v","i",
                        "d","e","r"," ","f","o","r"," ","p","e","r","s","o","n","a","l","i","z","e","d",
                        " ","a","d","v","i","c","e",".">>

C25_Witness ==
    /\ pc = "parse"
    /\ ~llm.ok
    /\ Len(chunks) = 2
    /\ chunks[1] # chunks[2]
    /\ Len(history_context) > 0
    /\ intent = "follow_up"

\* C26: when the language model fails inside generate_fallback_with_groq
\* the response is, for every query, the same two sentences with
\* confidences 0.3 and 0.9 in that order and no sources, flagged as a
\* fallback; when it succeeds every sentence has confidence 0.45 and no
\* sources.
C26_FallbackResponses ==
    (pc = "done" /\ InCalls("generate_fallback_with_groq")) =>
        /\ response.is_fallback
        /\ ~llm.ok =>
               /\ response.answer = <<
                   "I"," ","d","o","n","'","t"," ","h","a","v","e"," ","s","p","e","c","i","f","i",
                   "c"," ","i","n","f","o","r","m","a","t","i","o","n"," ","a","b","o","u","t"," ",
                   "t","h","a","t","."," ","P","l","e","a","s","e"," ","c","o","n","s","u","l","t",
                   " ","y","o","u","r"," ","h","e","a","l","t","h","c","a","r","e"," ","p","r","o",
                   "v","i","d","e","r"," ","f","o","r"," ","p","e","r","s","o","n","a","l","i","z",
                   "e","d"," ","g","u","i","d","a","n","c","e",".">>
               /\ response.sentences = <<
                      [text |-> <<
                          "I"," ","d","o","n","'","t"," ","h","a","v","e"," ","s","p","e","c","i","f","i",
                          "c"," ","i","n","f","o","r","m","a","t","i","o","n"," ","a","b","o","u","t"," ",
                          "t","h","a","t",".">>,
                       confidence |-> 30, sources |-> <<>>],
                      [text |-> <<
                          "P","l","e","a","s","e"," ","c","o","n","s","u","l","t"," ","y","o","u","r"," ",
                          "h","e","a","l","t","h","c","a","r","e"," ","p","r","o","v","i","d","e","r"," ",
                          "f","o","r"," ","p","e","r","s","o","n","a","l","i","z","e","d"," ","g","u","i",
                          "d","a","n","c","e",".">>,
                       confidence |-> 90, sources |-> <<>>] >>
        /\ llm.ok =>
               \A k \in 1..Len(response.sentences) :
                   /\ response.sentences[k].confidence = 45
                   /\ response.sentences[k].sources = <<>>

C26_Witness ==
    /\ pc = "done"
    /\ InCalls("generate_fallback_with_groq")
    /\ search_outcome = "no_results"
    /\ ~llm.ok
    /\ Len(response.sentences) = 2
    /\ Len(conversation_history) > 0

\* C27: in every response of query_rag_system a sentence with sources has
\* confidence at least 0.65, and the sentences of a casual, greeting,
\* generative-fallback or canned response have no sources.
C27_SourcesImplyFloor ==
    pc = "done" =>
        /\ \A k \in 1..Len(response.sentences) :
               Len(response.sentences[k].sources) > 0 => response.sentences[k].confidence >= 65
        /\ (intent \in {"casual", "greeting"} \/ InCalls("generate_fallback_with_groq")) =>
               \A k \in 1..Len(response.sentences) : response.sentences[k].sources = <<>>

C27_Witness ==
    /\ pc = "done"
    /\ route = "medication"
    /\ chunks = <<GenericMedicationChunk>>
    /\ \E k \in 1..Len(response.sentences) :
           /\ Len(response.sentences[k].sources) > 0
           /\ response.sentences[k].confidence = 70

(***************************************************************************)
(* Offline sync, create-post and token refresh.                            *)
(***************************************************************************)

\* the version an update_post operation carries (line 114)
ClientVersion(e) == IF "version" \in DOMAIN e.op.data THEN e.op.data.version ELSE 1

\* the post exists, belongs to the requesting user and its server version is
\* not greater than the version the client sent
UpdateAllowed(e) ==
    /\ e.op.data.id \in DOMAIN e.before
    /\ e.before[e.op.data.id].user_id = e.user_id
    /\ e.before[e.op.data.id].version <= ClientVersion(e)

UpdateEntries == {k \in DOMAIN sync_trace : sync_trace[k].op.type = "update_post"}

UpdateOnlyWhenAllowed ==
    \A k \in UpdateEntries :
        LET e == sync_trace[k]
        IN  IF UpdateAllowed(e)
            THEN e.reported = "none"
            ELSE e.after = e.before /\ e.reported = "conflicts"

\* every operation changes at most the post it names; an applied update or
\* delete raises that post's version by exactly 1; no version ever decreases
VersionStepsByOne ==
    \A k \in DOMAIN sync_trace :
        LET e == sync_trace[k]
        IN  /\ \A i \in DOMAIN e.before :
                   /\ i \in DOMAIN e.after
                   /\ e.after[i].version >= e.before[i].version
                   /\ e.after[i] # e.before[i] =>
                          /\ e.op.type \in {"update_post", "delete_post"}
                          /\ i = e.op.data.id
                          /\ e.after[i].version = e.before[i].version + 1
            /\ k > 1 => e.before = sync_trace[k - 1].after

SecondUpdateRefused ==
    \A k \in UpdateEntries :
        (/\ k + 1 \in UpdateEntries
         /\ sync_trace[k + 1].op.data.id = sync_trace[k].op.data.id
         /\ ClientVersion(sync_trace[k + 1]) = ClientVersion(sync_trace[k]))
        => sync_trace[k + 1].after = sync_trace[k + 1].before

\* C28: an update_post operation changes a post only if the post exists,
\* belongs to the requesting user and its server version is not greater than
\* the version the client sent, and is otherwise reported in conflicts with
\* the post unchanged; every applied update or delete raises the version by
\* exactly 1 and no version decreases; of two updates sent with the same base
\* version and processed one after the other, the second is not applied.
C28_OptimisticLocking ==
    /\ UpdateOnlyWhenAllowed
    /\ VersionStepsByOne
    /\ SecondUpdateRefused

DoneCreates(client_id) ==
    {r \in DOMAIN create_requests :
        create_requests[r].stage = "done" /\ create_requests[r].client_id = client_id}

\* C29: however create-post requests with the same non-null client_id are
\* interleaved, at most one post with that client_id exists and every such
\* request reports the same server id.
C29_IdempotentCreate ==
    \A client_id \in SyncClientIds :
        /\ Cardinality(PostsByClientId(forum_posts, client_id)) <= 1
        /\ \A r1, r2 \in DoneCreates(client_id) : create_requests[r1].id = create_requests[r2].id

IsValidRefreshToken(token, now) ==
    /\ token.wellformed
    /\ token.key = SECRET_KEY
    /\ token.payload.exp >= now
    /\ "type" \in DOMAIN token.payload
    /\ token.payload.type = "refresh"

\* C30: POST /auth/refresh answers with a new access token only when it was
\* given a valid, unexpired token of type "refresh"; for any other token it
\* answers 401.
C30_RefreshOnlyWithRefreshToken ==
    refresh_request.sent =>
        IF IsValidRefreshToken(refresh_request.refresh_token, refresh_request.at)
        THEN refresh_response.status = 200
        ELSE refresh_response.status = 401

====
